---- MODULE Spec2Model ----
(***************************************************************************)
(* Home Services API: the Express server (src/server.js, JSON files and    *)
(* an uploads folder) and the Cloudflare Worker (src/unnamed/part_000,     *)
(* Prisma/PostgreSQL and an R2 bucket).  One behaviour runs one variant.   *)
(*                                                                         *)
(* Text is a sequence of atoms: the group name admin is <<"admin">>, the   *)
(* name administrators is <<"admin", "istrators">>, and "," and " " are    *)
(* atoms of their own, so that splitting, trimming and substring search    *)
(* are computed as the code computes them.  A JavaScript value is a record *)
(* [t, v]: undefined, a string, or an array of strings.                    *)
(***************************************************************************)
EXTENDS Integers, Sequences, FiniteSets, TLC

VARIABLES
  variant,       \* "express" | "worker"
  users,         \* Identity Cache: users.json / table users, key -> profile
  services,      \* express: the in-memory array; worker: table services
  servicesFile,  \* express: content of data/services.json
  blobs,         \* uploads folder / R2 bucket: key -> bytes
  messages,      \* express: data/messages.json
  favorites,     \* express: data/favorites.json
  reqs,          \* request slot -> the suspended request it holds
  last,          \* what the latest step did: the request, its caller, its answer
  now,           \* Date.now()
  nextId,        \* worker: the next generated primary key of a service
  started,       \* requests accepted so far
  faults         \* store, blob and image-library failures so far

vars == <<variant, users, services, servicesFile, blobs, messages, favorites,
          reqs, last, now, nextId, started, faults>>

stores == <<services, servicesFile, blobs, messages, favorites>>

\* ------------------------------------------------------------------ bounds
MaxReqs == 2
MaxClock == 3
MaxFaults == 1

Slots == 1..MaxReqs

\* --------------------------------------------------------------- JS values
Null == "null"
Undef == [t |-> "undef", v |-> <<>>]
JStr(s) == [t |-> "str", v |-> s]
JArr(a) == [t |-> "arr", v |-> a]
JBool(b) == [t |-> "bool", v |-> b]

Truthy(x) ==
  CASE x.t = "undef" -> FALSE
    [] x.t = "str" -> x.v # <<>>
    [] x.t = "bool" -> x.v
    [] OTHER -> TRUE

\* s.includes(x) on a string: x occurs in s as a contiguous run
StrIncludes(s, x) ==
  \E i \in 1..(Len(s) + 1) :
      /\ i + Len(x) - 1 <= Len(s)
      /\ \A k \in 1..Len(x) : s[i + k - 1] = x[k]

\* a.includes(x) on an array: some element equals x
ArrIncludes(a, x) == \E i \in 1..Len(a) : a[i] = x

\* groups?.includes(x) / userGroups.includes(x) on whatever shape groups has
Includes(g, x) ==
  CASE g.t = "arr" -> ArrIncludes(g.v, x)
    [] g.t = "str" -> StrIncludes(g.v, x)
    [] OTHER -> FALSE

ADMIN == <<"admin">>
STAFF == <<"staff">>
GUEST == <<"guest">>
ADMINISTRATORS == <<"admin", "istrators">>

\* ------------------------------------------------------- text conversions
RECURSIVE Split(_, _)
\* s.split(sep): the pieces between the separators, empty pieces included
Split(s, sep) ==
  IF \A i \in 1..Len(s) : s[i] # sep
  THEN <<s>>
  ELSE LET i == CHOOSE j \in 1..Len(s) :
                  s[j] = sep /\ \A k \in 1..(j - 1) : s[k] # sep
       IN  <<SubSeq(s, 1, i - 1)>> \o Split(SubSeq(s, i + 1, Len(s)), sep)

RECURSIVE Trim(_)
\* g.trim(): no white space at either end
Trim(s) ==
  IF s = <<>> THEN s
  ELSE IF Head(s) = " " THEN Trim(Tail(s))
  ELSE IF s[Len(s)] = " " THEN Trim(SubSeq(s, 1, Len(s) - 1))
  ELSE s

RECURSIVE MapTrimFilter(_)
MapTrimFilter(ps) ==
  IF ps = <<>> THEN <<>>
  ELSE LET g == Trim(Head(ps))
       IN  (IF g = <<>> THEN <<>> ELSE <<g>>) \o MapTrimFilter(Tail(ps))

\* value.split(',').map(g => g.trim()).filter(g => g)
SplitGroups(s) == MapTrimFilter(Split(s, ","))

RECURSIVE Sanitize(_)
\* name.replace(/\s+/g, '_'): every run of white space becomes one "_"
Sanitize(s) ==
  IF s = <<>> THEN <<>>
  ELSE IF Head(s) = " "
       THEN IF Len(s) > 1 /\ s[2] = " " THEN Sanitize(Tail(s))
            ELSE <<"_">> \o Sanitize(Tail(s))
       ELSE <<Head(s)>> \o Sanitize(Tail(s))

\* `${Date.now()}-${name.replace(/\s+/g, '_')}.png`
FileName(t, name) == [t |-> t, n |-> Sanitize(name)]

\* md5 of the e-mail address inside the Gravatar URL
getGravatarUrl(email) == IF email = Null THEN <<>> ELSE <<"gravatar", email>>

\* Math.round((w / h) * 50)
RoundDiv(a, b) == (2 * a + b) \div (2 * b)
ResizedWidth(w, h) == RoundDiv(w * 50, h)

\* ---------------------------------------------------------------- records
NullDim == -1
resizedHeight == 50

NoKey == [t |-> -1, n |-> <<>>]
NoEntry == [id |-> -1, name |-> <<>>, redirectUrl |-> Null, allowedGroups |-> <<>>,
            imagePath |-> NoKey, originalWidth |-> NullDim, originalHeight |-> NullDim,
            resizedHeight |-> NullDim, resizedWidth |-> NullDim]
NoFile == [bytes |-> Null, w |-> 0, h |-> 0]
Images == {[bytes |-> "png1", w |-> 200, h |-> 100], [bytes |-> "png2", w |-> 30, h |-> 40]}
NoBody == [name |-> Undef, redirectUrl |-> Undef, groups |-> Undef, file |-> NoFile]
NoSuchId == -1

NameA == <<"wiki">>
NameB == <<"wiki", " ", " ", "docs">>

\* what the session and the identity provider say about the caller
Cred(kind, sub, email, name, groups) ==
  [kind |-> kind, sub |-> sub, email |-> email, name |-> name, groups |-> groups]

\* the groups claim as the provider ships it: a native list or a string in the
\* ID token (express), the remote-groups header (worker)
GroupClaims ==
  IF variant = "express"
  THEN {JArr(<<ADMIN>>), JArr(<<STAFF, GUEST>>), Undef, JStr(ADMINISTRATORS)}
  ELSE {JStr(<<"admin">>), JStr(<<"staff", ",", " ", "guest">>), Undef, JStr(ADMINISTRATORS)}

AdminClaims ==
  IF variant = "express" THEN {JArr(<<ADMIN>>), JArr(<<STAFF, GUEST>>)}
  ELSE {JStr(<<"admin">>), JStr(<<"staff", ",", " ", "guest">>)}

Credentials ==
  {Cred("none", Null, Null, Null, Undef), Cred("rejected", Null, Null, Null, Undef)}
  \cup (IF variant = "worker" THEN {Cred("noprincipal", Null, Null, Null, Undef)} ELSE {})
  \cup {Cred("ok", "u1", "ann@x.io", "Ann", g) : g \in GroupClaims}
  \cup {Cred("ok", "u1", "ann@x.io", Null, g) : g \in {Undef}}
  \cup {Cred("ok", "u2", Null, Null, g) : g \in AdminClaims}

UserKeys == {"ann@x.io", "u1", "u2"}

Upsert(table, k, p) == [x \in (DOMAIN table) \cup {k} |-> IF x = k THEN p ELSE table[x]]

Profile(email, displayName, groups) ==
  [email |-> email, displayName |-> displayName,
   avatarUrl |-> getGravatarUrl(email), groups |-> groups]

AuthResult(status, user, groups, table) ==
  [status |-> status, user |-> user, groups |-> groups, users |-> table]

\* checkAuth taking the groups of the caller's stored profile when it has one
checkAuth_cached(cred, fail) ==
  IF cred.kind # "ok" THEN AuthResult(401, Null, Undef, users)
  ELSE LET username == IF cred.email # Null THEN cred.email ELSE cred.sub
           reported == IF Truthy(cred.groups) THEN cred.groups ELSE JArr(<<>>)
           groups == IF username \in DOMAIN users THEN users[username].groups ELSE reported
       IN  IF fail THEN AuthResult(500, Null, Undef, users)
           ELSE AuthResult(0, username, groups,
                           Upsert(users, username, Profile(cred.email, cred.name, groups)))

\* checkAuth of the Express server; fail: saveUsers throws
checkAuth(cred, fail) ==
  IF cred.kind # "ok" THEN AuthResult(401, Null, Undef, users)
  ELSE LET username == IF cred.email # Null THEN cred.email ELSE cred.sub
           groups == IF Truthy(cred.groups) THEN cred.groups ELSE JArr(<<>>)
       IN  IF fail THEN AuthResult(500, Null, Undef, users)
           ELSE AuthResult(0, username, groups,
                           Upsert(users, username, Profile(cred.email, cred.name, groups)))

\* requireAdmin of the Express server: 403 unless groups.includes('admin')
requireAdmin(groups) == IF ~Includes(groups, ADMIN) THEN 403 ELSE 0

\* checkAuth of the Worker without the test of the remote-user header
checkAuth_w_noPrincipalTest(cred, fail) ==
  IF cred.kind \notin {"ok", "noprincipal"} THEN AuthResult(401, Null, Undef, users)
  ELSE LET username == cred.sub
           groupsHeader == IF Truthy(cred.groups) THEN cred.groups.v ELSE <<>>
           groups == JArr(SplitGroups(groupsHeader))
       IN  IF fail THEN AuthResult(401, Null, Undef, users)
           ELSE AuthResult(0, username, groups,
                           Upsert(users, username, Profile(cred.email, cred.name, groups)))

\* checkAuth of the Worker creating the profile and never updating it
checkAuth_w_insertOnly(cred, fail) ==
  IF cred.kind # "ok" THEN AuthResult(401, Null, Undef, users)
  ELSE LET username == cred.sub
           groupsHeader == IF Truthy(cred.groups) THEN cred.groups.v ELSE <<>>
           groups == JArr(SplitGroups(groupsHeader))
       IN  IF fail THEN AuthResult(401, Null, Undef, users)
           ELSE IF username \in DOMAIN users
           THEN AuthResult(0, username, users[username].groups, users)
           ELSE AuthResult(0, username, groups,
                           Upsert(users, username, Profile(cred.email, cred.name, groups)))

\* checkAuth of the Worker; fail: prisma.user.upsert throws
checkAuth_w(cred, fail) ==
  IF cred.kind # "ok" THEN AuthResult(401, Null, Undef, users)
  ELSE LET username == cred.sub
           groupsHeader == IF Truthy(cred.groups) THEN cred.groups.v ELSE <<>>
           groups == JArr(SplitGroups(groupsHeader))
       IN  IF fail THEN AuthResult(401, Null, Undef, users)
           ELSE AuthResult(0, username, groups,
                           Upsert(users, username, Profile(cred.email, cred.name, groups)))

\* requireAdmin of the Worker
requireAdmin_w(groups) == IF ~Includes(groups, ADMIN) THEN 403 ELSE 0

\* --------------------------------------------------------------- requests
NoCred == Cred("none", Null, Null, Null, Undef)

\* a suspended request: where it waits and what its handler holds
Req(pc, route, groups, id, body) ==
  [pc |-> pc, route |-> route, n |-> started + 1, groups |-> groups, id |-> id,
   body |-> body, index |-> -1, existing |-> NoEntry, key |-> NoKey]

IdleReq ==
  [pc |-> "idle", route |-> "none", n |-> 0, groups |-> Undef, id |-> NoSuchId,
   body |-> NoBody, index |-> -1, existing |-> NoEntry, key |-> NoKey]

\* the groups the Identity Cache holds for the caller before checkAuth runs
Prior(cred) ==
  LET k == IF variant = "express" /\ cred.email # Null THEN cred.email ELSE cred.sub
  IN  IF cred.kind = "ok" /\ k \in DOMAIN users THEN users[k].groups ELSE Undef

\* the first step of a request: the caller, the gate's verdict, the answer if any
Ev(slot, route, cred, a, id, body, status, ran, result) ==
  [slot |-> slot, route |-> route, n |-> started + 1, first |-> TRUE, cred |-> cred, user |-> a.user,
   groups |-> a.groups, prior |-> Prior(cred), id |-> id, body |-> body,
   status |-> status, ran |-> ran, result |-> result]

\* a later step of the suspended request q
EvStep(slot, q, status, result) ==
  [slot |-> slot, route |-> q.route, n |-> q.n, first |-> FALSE, cred |-> NoCred, user |-> Null,
   groups |-> q.groups, prior |-> Undef, id |-> q.id, body |-> q.body,
   status |-> status, ran |-> TRUE, result |-> result]

NoEvent ==
  [slot |-> 0, route |-> "none", n |-> 0, first |-> FALSE, cred |-> NoCred, user |-> Null,
   groups |-> Undef, prior |-> Undef, id |-> NoSuchId, body |-> NoBody,
   status |-> 0, ran |-> FALSE, result |-> <<>>]

\* a new request takes the first slot that holds no suspended request
Free(r) == reqs[r].pc = "idle" /\ \A x \in Slots : x < r => reqs[x].pc # "idle"
Budget == started < MaxReqs

Fails == {FALSE} \cup (IF faults < MaxFaults THEN {TRUE} ELSE {})
Outcomes(bad) == {"ok"} \cup (IF faults < MaxFaults THEN bad ELSE {})

IndexOf(list, id) ==
  IF \E i \in 1..Len(list) : list[i].id = id
  THEN CHOOSE i \in 1..Len(list) : list[i].id = id /\ \A j \in 1..(i - 1) : list[j].id # id
  ELSE -1

RemoveAt(list, i) == SubSeq(list, 1, i - 1) \o SubSeq(list, i + 1, Len(list))

existsSync(store, key) == key \in DOMAIN store
unlink(store, key) == [k \in (DOMAIN store) \ {key} |-> store[k]]
put(store, key, bytes) == [k \in (DOMAIN store) \cup {key} |-> IF k = key THEN bytes ELSE store[k]]

\* the filter with an exemption for administrators
canView_admin(userGroups, s) ==
  \/ Includes(userGroups, ADMIN)
  \/ \E i \in 1..Len(s.allowedGroups) : Includes(userGroups, s.allowedGroups[i])

\* s.allowedGroups?.some(g => userGroups.includes(g))
canView(userGroups, s) ==
  \E i \in 1..Len(s.allowedGroups) : Includes(userGroups, s.allowedGroups[i])

RECURSIVE filteredServices(_, _)
\* services.filter(s => s.allowedGroups?.some(g => userGroups.includes(g)))
filteredServices(list, userGroups) ==
  IF list = <<>> THEN <<>>
  ELSE (IF canView(userGroups, Head(list)) THEN <<Head(list)>> ELSE <<>>)
       \o filteredServices(Tail(list), userGroups)

\* Array.isArray(groups) ? groups : typeof groups === 'string' ? [groups] : []
allowedGroups(groups) ==
  CASE groups.t = "arr" -> groups.v
    [] groups.t = "str" -> <<groups.v>>
    [] OTHER -> <<>>

\* ------------------------------------------------------------------- Init
Text(k) == <<k>>

Notice(id, userId, type, title, content, createdAt, dismissed) ==
  [id |-> id, userId |-> userId, type |-> type, title |-> title, content |-> content,
   createdAt |-> createdAt, dismissed |-> dismissed]

Favorite(url, title, userId, createdAt) ==
  [url |-> url, title |-> title, userId |-> userId, createdAt |-> createdAt]

UrlA == <<"https://a">>
UrlB == <<"https://b">>

Seed(id, name, url, groups, img) ==
  [id |-> id, name |-> name, redirectUrl |-> url, allowedGroups |-> groups,
   imagePath |-> FileName(id, name),
   originalWidth |-> IF variant = "express" THEN img.w ELSE NullDim,
   originalHeight |-> IF variant = "express" THEN img.h ELSE NullDim,
   resizedHeight |-> resizedHeight,
   resizedWidth |-> IF variant = "express" THEN ResizedWidth(img.w, img.h) ELSE NullDim]

Init ==
  /\ variant \in {"express", "worker"}
  /\ users = [k \in {} |-> Null]
  /\ LET img == [bytes |-> "png1", w |-> 200, h |-> 100]
         s0 == Seed(0, NameA, JStr(<<"https://a">>), <<STAFF>>, img)
         s1 == Seed(1, NameB, JStr(<<"https://b">>), <<ADMIN>>, img)
     IN  /\ services = <<s0, s1>>
         /\ servicesFile = IF variant = "express" THEN <<s0, s1>> ELSE <<>>
         /\ blobs = [k \in {s0.imagePath, s1.imagePath} |-> "png1"]
  /\ messages = IF variant = "express"
                THEN <<Notice(<<0, 1>>, Text("ann@x.io"), <<"information">>, <<"t">>, <<"c">>,
                              0, FALSE),
                       Notice(<<0, 2>>, Text("u2"), <<"warning">>, <<"t">>, <<"c">>, 0, FALSE)>>
                ELSE <<>>
  /\ favorites = IF variant = "express" THEN <<Favorite(UrlA, <<"A">>, "u2", 0)>> ELSE <<>>
  /\ reqs = [r \in Slots |-> IdleReq]
  /\ last = NoEvent
  /\ now = 2
  /\ nextId = 2
  /\ started = 0
  /\ faults = 0

Tick ==
  /\ now < MaxClock
  /\ now' = now + 1
  /\ last' = NoEvent
  /\ UNCHANGED <<variant, users, services, servicesFile, blobs, messages,
                 favorites, reqs, nextId, started, faults>>

\* ------------------------------------------------------ express: catalog
\* checkAuth, then requireAdmin where the route names it
Gate(cred, fail, admin) ==
  LET a == checkAuth(cred, fail)
  IN  [a EXCEPT !.status = IF a.status = 0 /\ admin THEN requireAdmin(a.groups) ELSE a.status]

\* app.get('/whoami', checkAuth, ...)
Whoami(creds) ==
  /\ variant = "express" /\ Budget
  /\ \E cred \in creds, fail \in Fails :
       LET a == Gate(cred, fail, FALSE)
       IN  /\ (fail => cred.kind = "ok")
           /\ users' = a.users
           /\ faults' = IF fail THEN faults + 1 ELSE faults
           /\ last' = IF a.status # 0
                      THEN Ev(0, "whoami", cred, a, NoSuchId, NoBody, a.status, FALSE, <<>>)
                      ELSE Ev(0, "whoami", cred, a, NoSuchId, NoBody, 200, TRUE,
                              <<Includes(a.groups, ADMIN)>>)
  /\ started' = started + 1
  /\ UNCHANGED <<variant, services, servicesFile, blobs, messages, favorites,
                 reqs, now, nextId>>

\* app.get('/services', checkAuth, ...)
GetServices(creds) ==
  /\ variant = "express" /\ Budget
  /\ \E cred \in creds, fail \in Fails :
       LET a == Gate(cred, fail, FALSE)
       IN  /\ (fail => cred.kind = "ok")
           /\ users' = a.users
           /\ faults' = IF fail THEN faults + 1 ELSE faults
           /\ last' = IF a.status # 0
                      THEN Ev(0, "services", cred, a, NoSuchId, NoBody, a.status, FALSE, <<>>)
                      ELSE IF a.groups.t # "arr"
                      \* userGroups.join is not a function: the catch answers 500
                      THEN Ev(0, "services", cred, a, NoSuchId, NoBody, 500, TRUE, <<>>)
                      ELSE Ev(0, "services", cred, a, NoSuchId, NoBody, 200, TRUE,
                              filteredServices(services, a.groups))
  /\ started' = started + 1
  /\ UNCHANGED <<variant, services, servicesFile, blobs, messages, favorites,
                 reqs, now, nextId>>

\* what a client may send to add-service and update-service
Body(name, redirectUrl, groups, file) ==
  [name |-> name, redirectUrl |-> redirectUrl, groups |-> groups, file |-> file]

Png1 == [bytes |-> "png1", w |-> 200, h |-> 100]
Png2 == [bytes |-> "png2", w |-> 30, h |-> 40]
UrlC == JStr(<<"https://c">>)

\* repeated form fields reach the Express handler as an array, one field as a
\* string; the Worker reads one comma-separated string
GroupsOne == JStr(STAFF)
GroupsTwo ==
  IF variant = "express" THEN JArr(<<STAFF, ADMIN>>) ELSE JStr(<<"staff", ",", " ", "admin">>)
GroupsNone == IF variant = "express" THEN JArr(<<>>) ELSE JStr(<<" ", ",">>)

\* a multipart form cannot carry an empty array
AddBodies ==
  {Body(JStr(NameB), UrlC, GroupsTwo, Png2),
   Body(JStr(NameB), UrlC, Undef, Png2),
   Body(JStr(NameB), UrlC, JStr(<<>>), Png2),
   Body(JStr(NameB), UrlC, GroupsOne, NoFile)}
  \cup (IF variant = "worker" THEN {Body(JStr(NameB), UrlC, GroupsNone, Png2)} ELSE {})

UpdateBodies ==
  {Body(JStr(NameB), Undef, GroupsNone, NoFile),
   Body(Undef, UrlC, JStr(<<>>), NoFile),
   Body(Undef, Undef, JStr(GUEST), NoFile),
   Body(Undef, Undef, Undef, NoFile),
   Body(Undef, Undef, Undef, Png2),
   Body(Undef, Undef, Undef, Png1)}

Ids == {services[i].id : i \in 1..Len(services)} \cup {NoSuchId}

\* !name || !redirectUrl || !imageBuffer || allowedGroups.length === 0
missingFields(body) ==
  \/ ~Truthy(body.name) \/ ~Truthy(body.redirectUrl)
  \/ body.file = NoFile \/ Len(allowedGroups(body.groups)) = 0

\* app.post('/add-service', checkAuth, requireAdmin, upload.single('image'), ...)
\* up to the first await of the handler
AddService(r, creds, bodies) ==
  /\ variant = "express" /\ Budget /\ Free(r)
  /\ \E cred \in creds, fail \in Fails, body \in bodies :
       LET a == Gate(cred, fail, TRUE)
       IN  /\ (fail => cred.kind = "ok")
           /\ users' = a.users
           /\ faults' = IF fail THEN faults + 1 ELSE faults
           /\ IF a.status # 0
              THEN /\ last' = Ev(r, "add-service", cred, a, NoSuchId, body, a.status, FALSE, <<>>)
                   /\ reqs' = reqs
              ELSE IF missingFields(body)
              THEN /\ last' = Ev(r, "add-service", cred, a, NoSuchId, body, 400, TRUE, <<>>)
                   /\ reqs' = reqs
              ELSE /\ last' = Ev(r, "add-service", cred, a, NoSuchId, body, 0, TRUE, <<>>)
                   /\ reqs' = [reqs EXCEPT ![r] = Req("sharp", "add-service", a.groups, NoSuchId, body)]
  /\ started' = started + 1
  /\ UNCHANGED <<variant, services, servicesFile, blobs, messages, favorites, now, nextId>>

\* add-service pushing the entry before fs.writeFileSync: a failed write
\* leaves the entry in the catalog
AddService_write_recordFirst(r) ==
  /\ variant = "express" /\ reqs[r].pc = "sharp" /\ reqs[r].route = "add-service"
  /\ \E outcome \in Outcomes({"sharp", "writeFile", "save"}) :
       LET q == reqs[r]
           filePath == FileName(now, q.body.name.v)
           newService ==
             [id |-> now, name |-> q.body.name.v, redirectUrl |-> q.body.redirectUrl,
              allowedGroups |-> allowedGroups(q.body.groups), imagePath |-> filePath,
              originalWidth |-> q.body.file.w, originalHeight |-> q.body.file.h,
              resizedHeight |-> resizedHeight,
              resizedWidth |-> ResizedWidth(q.body.file.w, q.body.file.h)]
           written == outcome \in {"ok", "save"}
       IN  /\ blobs' = IF written THEN put(blobs, filePath, q.body.file.bytes) ELSE blobs
           /\ services' = IF outcome # "sharp" THEN Append(services, newService) ELSE services
           /\ servicesFile' = IF outcome = "ok" THEN services' ELSE servicesFile
           /\ faults' = IF outcome = "ok" THEN faults ELSE faults + 1
           /\ last' = IF outcome = "ok" THEN EvStep(r, q, 201, <<newService.id>>)
                      ELSE EvStep(r, q, 500, <<>>)
  /\ reqs' = [reqs EXCEPT ![r] = IdleReq]
  /\ UNCHANGED <<variant, users, messages, favorites, now, nextId, started>>

\* add-service after sharp: write the file, push, saveServices
AddService_write(r) ==
  /\ variant = "express" /\ reqs[r].pc = "sharp" /\ reqs[r].route = "add-service"
  /\ \E outcome \in Outcomes({"sharp", "writeFile", "save"}) :
       LET q == reqs[r]
           filePath == FileName(now, q.body.name.v)
           newService ==
             [id |-> now, name |-> q.body.name.v, redirectUrl |-> q.body.redirectUrl,
              allowedGroups |-> allowedGroups(q.body.groups), imagePath |-> filePath,
              originalWidth |-> q.body.file.w, originalHeight |-> q.body.file.h,
              resizedHeight |-> resizedHeight,
              resizedWidth |-> ResizedWidth(q.body.file.w, q.body.file.h)]
           written == outcome \in {"ok", "save"}
       IN  /\ blobs' = IF written THEN put(blobs, filePath, q.body.file.bytes) ELSE blobs
           /\ services' = IF written THEN Append(services, newService) ELSE services
           /\ servicesFile' = IF outcome = "ok" THEN services' ELSE servicesFile
           /\ faults' = IF outcome = "ok" THEN faults ELSE faults + 1
           /\ last' = IF outcome = "ok" THEN EvStep(r, q, 201, <<newService.id>>)
                      ELSE EvStep(r, q, 500, <<>>)
  /\ reqs' = [reqs EXCEPT ![r] = IdleReq]
  /\ UNCHANGED <<variant, users, messages, favorites, now, nextId, started>>

\* app.put('/update-service/:id', checkAuth, requireAdmin, upload.single('image'), ...)
\* the two middlewares; multer then reads the body
UpdateService(r, creds, bodies) ==
  /\ variant = "express" /\ Budget /\ Free(r)
  /\ \E cred \in creds, fail \in Fails, body \in bodies, id \in Ids :
       LET a == Gate(cred, fail, TRUE)
       IN  /\ (fail => cred.kind = "ok")
           /\ users' = a.users
           /\ faults' = IF fail THEN faults + 1 ELSE faults
           /\ IF a.status # 0
              THEN /\ last' = Ev(r, "update-service", cred, a, id, body, a.status, FALSE, <<>>)
                   /\ reqs' = reqs
              ELSE /\ last' = Ev(r, "update-service", cred, a, id, body, 0, FALSE, <<>>)
                   /\ reqs' = [reqs EXCEPT ![r] = Req("upload", "update-service", a.groups, id, body)]
  /\ started' = started + 1
  /\ UNCHANGED <<variant, services, servicesFile, blobs, messages, favorites, now, nextId>>

\* the field updates without the test of allowedGroups.length
SetFields_noLengthTest(s, body) ==
  [s EXCEPT
     !.name = IF Truthy(body.name) THEN body.name.v ELSE @,
     !.redirectUrl = IF Truthy(body.redirectUrl) THEN body.redirectUrl ELSE @,
     !.allowedGroups = IF Truthy(body.groups) THEN allowedGroups(body.groups) ELSE @]

\* if (name) ...; if (redirectUrl) ...; if (groups) { ... if (allowedGroups.length) ... }
SetFields(s, body) ==
  [s EXCEPT
     !.name = IF Truthy(body.name) THEN body.name.v ELSE @,
     !.redirectUrl = IF Truthy(body.redirectUrl) THEN body.redirectUrl ELSE @,
     !.allowedGroups =
        IF Truthy(body.groups) /\ Len(allowedGroups(body.groups)) # 0
        THEN allowedGroups(body.groups) ELSE @]

\* update-service from findIndex to the first await, or to the answer when
\* the request carries no image
UpdateService_fields(r) ==
  /\ variant = "express" /\ reqs[r].pc = "upload"
  /\ LET q == reqs[r]
         index == IndexOf(services, q.id)
     IN  IF index = -1
         THEN /\ last' = EvStep(r, q, 404, <<>>)
              /\ reqs' = [reqs EXCEPT ![r] = IdleReq]
              /\ UNCHANGED <<services, servicesFile, faults>>
         ELSE /\ services' = [services EXCEPT ![index] = SetFields(@, q.body)]
              /\ IF q.body.file # NoFile
                 THEN /\ reqs' = [reqs EXCEPT ![r] = [q EXCEPT !.pc = "sharp", !.index = index]]
                      /\ last' = EvStep(r, q, 0, <<>>)
                      /\ UNCHANGED <<servicesFile, faults>>
                 ELSE \E outcome \in Outcomes({"save"}) :
                        /\ servicesFile' = IF outcome = "ok" THEN services' ELSE servicesFile
                        /\ faults' = IF outcome = "ok" THEN faults ELSE faults + 1
                        /\ last' = IF outcome = "ok" THEN EvStep(r, q, 200, <<services'[index]>>)
                                   ELSE EvStep(r, q, 500, <<>>)
                        /\ reqs' = [reqs EXCEPT ![r] = IdleReq]
  /\ UNCHANGED <<variant, users, blobs, messages, favorites, now, nextId, started>>

\* update-service after sharp: write the new file, unlink the old one, set
\* the image fields of services[index], saveServices
UpdateService_image(r) ==
  /\ variant = "express" /\ reqs[r].pc = "sharp" /\ reqs[r].route = "update-service"
  /\ \E outcome \in Outcomes({"sharp", "writeFile", "unlink", "save"}) :
       LET q == reqs[r]
           index == q.index
           gone == index > Len(services)
           old == services[index]
           filePath == FileName(now, old.name)
           wrote == put(blobs, filePath, q.body.file.bytes)
           hasOld == existsSync(wrote, old.imagePath)
           updated == [old EXCEPT !.imagePath = filePath,
                                  !.originalWidth = q.body.file.w,
                                  !.originalHeight = q.body.file.h,
                                  !.resizedHeight = resizedHeight,
                                  !.resizedWidth = ResizedWidth(q.body.file.w, q.body.file.h)]
       IN  /\ (gone => outcome = "ok")
           /\ (outcome = "unlink" => ~gone /\ hasOld)
           /\ faults' = IF outcome = "ok" THEN faults ELSE faults + 1
           /\ IF gone \/ outcome \in {"sharp", "writeFile"}
              THEN /\ last' = EvStep(r, q, 500, <<>>)
                   /\ UNCHANGED <<services, servicesFile, blobs>>
              ELSE IF outcome = "unlink"
              THEN /\ last' = EvStep(r, q, 500, <<>>)
                   /\ blobs' = wrote
                   /\ UNCHANGED <<services, servicesFile>>
              ELSE /\ blobs' = IF hasOld THEN unlink(wrote, old.imagePath) ELSE wrote
                   /\ services' = [services EXCEPT ![index] = updated]
                   /\ servicesFile' = IF outcome = "ok" THEN services' ELSE servicesFile
                   /\ last' = IF outcome = "ok" THEN EvStep(r, q, 200, <<updated>>)
                              ELSE EvStep(r, q, 500, <<>>)
  /\ reqs' = [reqs EXCEPT ![r] = IdleReq]
  /\ UNCHANGED <<variant, users, messages, favorites, now, nextId, started>>

\* delete-service without the test of the index: splice(-1, 1) takes the
\* last entry
DeleteService_noIndexTest(creds) ==
  /\ variant = "express" /\ Budget
  /\ \E cred \in creds, fail \in Fails, id \in Ids,
        outcome \in Outcomes({"unlink", "save"}) :
       LET a == Gate(cred, fail, TRUE)
           found == IndexOf(services, id)
           index == IF found = -1 THEN Len(services) ELSE found
           removed == services[index]
           hasFile == existsSync(blobs, removed.imagePath)
       IN  /\ (fail => cred.kind = "ok" /\ outcome = "ok")
           /\ (outcome # "ok" => a.status = 0 /\ index # 0)
           /\ (outcome = "unlink" => hasFile)
           /\ users' = a.users
           /\ faults' = IF fail \/ outcome # "ok" THEN faults + 1 ELSE faults
           /\ IF a.status # 0
              THEN /\ last' = Ev(0, "delete-service", cred, a, id, NoBody, a.status, FALSE, <<>>)
                   /\ UNCHANGED <<services, servicesFile, blobs>>
              ELSE IF index = 0
              THEN /\ last' = Ev(0, "delete-service", cred, a, id, NoBody, 500, TRUE, <<>>)
                   /\ UNCHANGED <<services, servicesFile, blobs>>
              ELSE /\ services' = RemoveAt(services, index)
                   /\ blobs' = IF hasFile /\ outcome # "unlink"
                               THEN unlink(blobs, removed.imagePath) ELSE blobs
                   /\ servicesFile' = IF outcome = "ok" THEN services' ELSE servicesFile
                   /\ last' = Ev(0, "delete-service", cred, a, id, NoBody,
                                 IF outcome = "ok" THEN 200 ELSE 500, TRUE, <<>>)
  /\ started' = started + 1
  /\ UNCHANGED <<variant, messages, favorites, reqs, now, nextId>>

\* app.delete('/delete-service/:id', checkAuth, requireAdmin, ...)
DeleteService(creds) ==
  /\ variant = "express" /\ Budget
  /\ \E cred \in creds, fail \in Fails, id \in Ids,
        outcome \in Outcomes({"unlink", "save"}) :
       LET a == Gate(cred, fail, TRUE)
           index == IndexOf(services, id)
           removed == services[index]
           hasFile == existsSync(blobs, removed.imagePath)
       IN  /\ (fail => cred.kind = "ok" /\ outcome = "ok")
           /\ (outcome # "ok" => a.status = 0 /\ index # -1)
           /\ (outcome = "unlink" => hasFile)
           /\ users' = a.users
           /\ faults' = IF fail \/ outcome # "ok" THEN faults + 1 ELSE faults
           /\ IF a.status # 0
              THEN /\ last' = Ev(0, "delete-service", cred, a, id, NoBody, a.status, FALSE, <<>>)
                   /\ UNCHANGED <<services, servicesFile, blobs>>
              ELSE IF index = -1
              THEN /\ last' = Ev(0, "delete-service", cred, a, id, NoBody, 404, TRUE, <<>>)
                   /\ UNCHANGED <<services, servicesFile, blobs>>
              ELSE /\ services' = RemoveAt(services, index)
                   /\ blobs' = IF hasFile /\ outcome # "unlink"
                               THEN unlink(blobs, removed.imagePath) ELSE blobs
                   /\ servicesFile' = IF outcome = "ok" THEN services' ELSE servicesFile
                   /\ last' = Ev(0, "delete-service", cred, a, id, NoBody,
                                 IF outcome = "ok" THEN 200 ELSE 500, TRUE, <<>>)
  /\ started' = started + 1
  /\ UNCHANGED <<variant, messages, favorites, reqs, now, nextId>>

\* ------------------------------------------------------ express: notices
MessageBody(userId, type, title, content, dismissed) ==
  [userId |-> userId, type |-> type, title |-> title, content |-> content,
   dismissed |-> dismissed]

NoMessageId == <<-1, 0>>
MessageIds == {messages[i].id : i \in 1..Len(messages)} \cup {NoMessageId}
validTypes == {<<"information">>, <<"warning">>, <<"error">>}
\* Math.random(): a draw of 52 random bits, written after the clock reading
Rnds == 1..4

\* the draws of one request: a draw that repeats one made in the same
\* millisecond has probability 2^-52 and is left out
Draws(n) ==
  {rnds \in [1..n -> Rnds] :
     /\ \A i, j \in 1..n : rnds[i] = rnds[j] => i = j
     /\ \A i \in 1..n : <<now, rnds[i]>> \notin {messages[k].id : k \in 1..Len(messages)}}

AddMessageBodies ==
  {MessageBody(JStr(Text("u2")), JStr(<<"warning">>), JStr(<<"t">>), JStr(<<"c">>), Undef),
   MessageBody(JArr(<<Text("ann@x.io"), Text("u2")>>), JStr(<<"error">>), JStr(<<"t">>),
               JStr(<<"c">>), Undef),
   MessageBody(JStr(Text("u2")), JStr(<<"urgent">>), JStr(<<"t">>), JStr(<<"c">>), Undef),
   MessageBody(Undef, JStr(<<"warning">>), JStr(<<"t">>), JStr(<<"c">>), Undef)}

UpdateMessageBodies ==
  {MessageBody(Undef, JStr(<<"error">>), Undef, Undef, Undef),
   MessageBody(Undef, JStr(<<"urgent">>), Undef, Undef, Undef),
   MessageBody(Undef, Undef, JStr(<<"t2">>), Undef, Undef),
   MessageBody(Undef, Undef, Undef, Undef, JBool(TRUE)),
   MessageBody(Undef, Undef, Undef, Undef, JStr(<<"true">>)),
   MessageBody(Undef, Undef, Undef, Undef, Undef)}

RECURSIVE newMessages_clockId(_, _, _)
\* id: Date.now().toString(), without the random draw
newMessages_clockId(userIds, rnds, body) ==
  IF userIds = <<>> THEN <<>>
  ELSE <<Notice(<<now, 0>>, Head(userIds), body.type.v, body.title.v,
                body.content.v, now, FALSE)>>
       \o newMessages_clockId(Tail(userIds), Tail(rnds), body)

RECURSIVE SelectMessages_noDismissedTest(_, _, _)
\* messages.filter(m => all || m.userId === userEmail)
SelectMessages_noDismissedTest(list, all, userEmail) ==
  IF list = <<>> THEN <<>>
  ELSE (IF all \/ Head(list).userId = Text(userEmail)
        THEN <<Head(list)>> ELSE <<>>)
       \o SelectMessages_noDismissedTest(Tail(list), all, userEmail)

RECURSIVE newMessages(_, _, _)
\* userIds.forEach(email => messages.push({ id: Date.now().toString() + Math.random(), ... }))
newMessages(userIds, rnds, body) ==
  IF userIds = <<>> THEN <<>>
  ELSE <<Notice(<<now, Head(rnds)>>, Head(userIds), body.type.v, body.title.v,
                body.content.v, now, FALSE)>>
       \o newMessages(Tail(userIds), Tail(rnds), body)

RECURSIVE SelectMessages(_, _, _)
\* messages.filter(m => (all || m.userId === userEmail) && !m.dismissed)
SelectMessages(list, all, userEmail) ==
  IF list = <<>> THEN <<>>
  ELSE (IF (all \/ Head(list).userId = Text(userEmail)) /\ ~Head(list).dismissed
        THEN <<Head(list)>> ELSE <<>>)
       \o SelectMessages(Tail(list), all, userEmail)

\* app.post('/add-message', checkAuth, requireAdmin, ...)
AddMessage(creds, bodies) ==
  /\ variant = "express" /\ Budget
  /\ \E cred \in creds, fail \in Fails, body \in bodies, outcome \in Outcomes({"save"}) :
       LET a == Gate(cred, fail, TRUE)
           missing == \/ ~Truthy(body.userId) \/ ~Truthy(body.type)
                      \/ ~Truthy(body.title) \/ ~Truthy(body.content)
           userIds == IF body.userId.t = "arr" THEN body.userId.v ELSE <<body.userId.v>>
           run == a.status = 0 /\ ~missing /\ body.type.v \in validTypes
       IN  /\ (fail => cred.kind = "ok" /\ outcome = "ok")
           /\ (outcome # "ok" => run)
           /\ users' = a.users
           /\ faults' = IF fail \/ outcome # "ok" THEN faults + 1 ELSE faults
           /\ IF ~run
              THEN /\ last' = Ev(0, "add-message", cred, a, NoSuchId, body,
                                 IF a.status # 0 THEN a.status ELSE 400, a.status = 0, <<>>)
                   /\ messages' = messages
              ELSE \E rnds \in Draws(Len(userIds)) :
                     LET new == newMessages(userIds, rnds, body)
                     IN  /\ messages' = IF outcome = "ok" THEN messages \o new ELSE messages
                         /\ last' = Ev(0, "add-message", cred, a, NoSuchId, body,
                                       IF outcome = "ok" THEN 201 ELSE 500, TRUE,
                                       IF outcome = "ok" THEN new ELSE <<>>)
  /\ started' = started + 1
  /\ UNCHANGED <<variant, services, servicesFile, blobs, favorites, reqs, now, nextId>>

\* app.get('/messages', checkAuth, ...) and app.get('/all-messages', checkAuth, requireAdmin, ...)
GetMessages(creds, all) ==
  /\ variant = "express" /\ Budget
  /\ \E cred \in creds, fail \in Fails :
       LET a == Gate(cred, fail, all)
           route == IF all THEN "all-messages" ELSE "messages"
       IN  /\ (fail => cred.kind = "ok")
           /\ users' = a.users
           /\ faults' = IF fail THEN faults + 1 ELSE faults
           /\ last' = IF a.status # 0
                      THEN Ev(0, route, cred, a, NoSuchId, NoBody, a.status, FALSE, <<>>)
                      ELSE Ev(0, route, cred, a, NoSuchId, NoBody, 200, TRUE,
                              SelectMessages(messages, all, a.user))
  /\ started' = started + 1
  /\ UNCHANGED <<variant, services, servicesFile, blobs, messages, favorites,
                 reqs, now, nextId>>

\* app.delete('/delete-message/:id', checkAuth, requireAdmin, ...)
DeleteMessage(creds) ==
  /\ variant = "express" /\ Budget
  /\ \E cred \in creds, fail \in Fails, id \in MessageIds, outcome \in Outcomes({"save"}) :
       LET a == Gate(cred, fail, TRUE)
           index == IndexOf(messages, id)
           run == a.status = 0 /\ index # -1
       IN  /\ (fail => cred.kind = "ok" /\ outcome = "ok")
           /\ (outcome # "ok" => run)
           /\ users' = a.users
           /\ faults' = IF fail \/ outcome # "ok" THEN faults + 1 ELSE faults
           /\ messages' = IF run /\ outcome = "ok" THEN RemoveAt(messages, index) ELSE messages
           /\ last' = Ev(0, "delete-message", cred, a, id, NoBody,
                         IF a.status # 0 THEN a.status
                         ELSE IF index = -1 THEN 404
                         ELSE IF outcome = "ok" THEN 200 ELSE 500,
                         a.status = 0, <<>>)
  /\ started' = started + 1
  /\ UNCHANGED <<variant, services, servicesFile, blobs, favorites, reqs, now, nextId>>

\* messages[index].dismissed = dismissed === true: an absent flag resets it
patchMessage_resetDismissed(m, body) ==
  [m EXCEPT
     !.type = IF Truthy(body.type) THEN body.type.v ELSE @,
     !.title = IF Truthy(body.title) THEN body.title.v ELSE @,
     !.content = IF Truthy(body.content) THEN body.content.v ELSE @,
     !.dismissed = body.dismissed.t = "bool" /\ body.dismissed.v]

\* if (type) ...; if (title) ...; if (content) ...; if (typeof dismissed === 'boolean') ...
patchMessage(m, body) ==
  [m EXCEPT
     !.type = IF Truthy(body.type) THEN body.type.v ELSE @,
     !.title = IF Truthy(body.title) THEN body.title.v ELSE @,
     !.content = IF Truthy(body.content) THEN body.content.v ELSE @,
     !.dismissed = IF body.dismissed.t = "bool" THEN body.dismissed.v ELSE @]

\* app.post('/update-message/:id', checkAuth, requireAdmin, ...)
UpdateMessage(creds, bodies) ==
  /\ variant = "express" /\ Budget
  /\ \E cred \in creds, fail \in Fails, id \in MessageIds, body \in bodies,
        outcome \in Outcomes({"save"}) :
       LET a == Gate(cred, fail, TRUE)
           index == IndexOf(messages, id)
           run == a.status = 0 /\ index # -1
           patched == patchMessage(messages[index], body)
       IN  /\ (fail => cred.kind = "ok" /\ outcome = "ok")
           /\ (outcome # "ok" => run)
           /\ users' = a.users
           /\ faults' = IF fail \/ outcome # "ok" THEN faults + 1 ELSE faults
           /\ messages' = IF run /\ outcome = "ok"
                          THEN [messages EXCEPT ![index] = patched] ELSE messages
           /\ last' = Ev(0, "update-message", cred, a, id, body,
                         IF a.status # 0 THEN a.status
                         ELSE IF index = -1 THEN 404
                         ELSE IF outcome = "ok" THEN 200 ELSE 500,
                         a.status = 0,
                         IF run /\ outcome = "ok" THEN <<patched>> ELSE <<>>)
  /\ started' = started + 1
  /\ UNCHANGED <<variant, services, servicesFile, blobs, favorites, reqs, now, nextId>>

\* app.get('/user-ids', checkAuth, requireAdmin, ...)
GetUserIds(creds) ==
  /\ variant = "express" /\ Budget
  /\ \E cred \in creds, fail \in Fails :
       LET a == Gate(cred, fail, TRUE)
       IN  /\ (fail => cred.kind = "ok")
           /\ users' = a.users
           /\ faults' = IF fail THEN faults + 1 ELSE faults
           /\ last' = IF a.status # 0
                      THEN Ev(0, "user-ids", cred, a, NoSuchId, NoBody, a.status, FALSE, <<>>)
                      ELSE Ev(0, "user-ids", cred, a, NoSuchId, NoBody, 200, TRUE,
                              <<DOMAIN a.users>>)
  /\ started' = started + 1
  /\ UNCHANGED <<variant, services, servicesFile, blobs, messages, favorites,
                 reqs, now, nextId>>

\* ---------------------------------------------------- express: bookmarks
FavoriteBody(url, title) == [url |-> url, title |-> title]

FavoriteBodies ==
  {FavoriteBody(JStr(UrlA), JStr(<<"A">>)), FavoriteBody(JStr(UrlB), JStr(<<"B">>)),
   FavoriteBody(JStr(UrlA), Undef)}

\* findIndex(f => f.url === url): the owner is not compared
IndexOfFavorite_anyOwner(list, url, userEmail) ==
  IF \E i \in 1..Len(list) : list[i].url = url
  THEN CHOOSE i \in 1..Len(list) :
         list[i].url = url /\ \A j \in 1..(i - 1) : list[j].url # url
  ELSE -1

\* favorites.findIndex(f => f.url === url && f.userId === userEmail)
IndexOfFavorite(list, url, userEmail) ==
  IF \E i \in 1..Len(list) : list[i].url = url /\ list[i].userId = userEmail
  THEN CHOOSE i \in 1..Len(list) :
         /\ list[i].url = url /\ list[i].userId = userEmail
         /\ \A j \in 1..(i - 1) : ~(list[j].url = url /\ list[j].userId = userEmail)
  ELSE -1

RECURSIVE userFavorites(_, _)
\* favorites.filter(f => f.userId === userEmail)
userFavorites(list, userEmail) ==
  IF list = <<>> THEN <<>>
  ELSE (IF Head(list).userId = userEmail THEN <<Head(list)>> ELSE <<>>)
       \o userFavorites(Tail(list), userEmail)

\* add-favorite without the test of an existing record
AddFavorite_noExistsTest(creds, bodies) ==
  /\ variant = "express" /\ Budget
  /\ \E cred \in creds, fail \in Fails, body \in bodies, outcome \in Outcomes({"save"}) :
       LET a == Gate(cred, fail, FALSE)
           missing == ~Truthy(body.url) \/ ~Truthy(body.title)
           run == a.status = 0 /\ ~missing
           newFavorite == Favorite(body.url.v, body.title.v, a.user, now)
       IN  /\ (fail => cred.kind = "ok" /\ outcome = "ok")
           /\ (outcome # "ok" => run)
           /\ users' = a.users
           /\ faults' = IF fail \/ outcome # "ok" THEN faults + 1 ELSE faults
           /\ favorites' = IF run /\ outcome = "ok" THEN Append(favorites, newFavorite)
                           ELSE favorites
           /\ last' = Ev(0, "add-favorite", cred, a, NoSuchId, body,
                         IF a.status # 0 THEN a.status
                         ELSE IF missing THEN 400
                         ELSE IF outcome = "ok" THEN 201 ELSE 500,
                         a.status = 0, <<>>)
  /\ started' = started + 1
  /\ UNCHANGED <<variant, services, servicesFile, blobs, messages, reqs, now, nextId>>

\* app.post('/add-favorite', checkAuth, ...)
AddFavorite(creds, bodies) ==
  /\ variant = "express" /\ Budget
  /\ \E cred \in creds, fail \in Fails, body \in bodies, outcome \in Outcomes({"save"}) :
       LET a == Gate(cred, fail, FALSE)
           missing == ~Truthy(body.url) \/ ~Truthy(body.title)
           exists == IndexOfFavorite(favorites, body.url.v, a.user) # -1
           run == a.status = 0 /\ ~missing /\ ~exists
           newFavorite == Favorite(body.url.v, body.title.v, a.user, now)
       IN  /\ (fail => cred.kind = "ok" /\ outcome = "ok")
           /\ (outcome # "ok" => run)
           /\ users' = a.users
           /\ faults' = IF fail \/ outcome # "ok" THEN faults + 1 ELSE faults
           /\ favorites' = IF run /\ outcome = "ok" THEN Append(favorites, newFavorite)
                           ELSE favorites
           /\ last' = Ev(0, "add-favorite", cred, a, NoSuchId, body,
                         IF a.status # 0 THEN a.status
                         ELSE IF missing \/ exists THEN 400
                         ELSE IF outcome = "ok" THEN 201 ELSE 500,
                         a.status = 0, <<>>)
  /\ started' = started + 1
  /\ UNCHANGED <<variant, services, servicesFile, blobs, messages, reqs, now, nextId>>

\* app.get('/favorites', checkAuth, ...)
GetFavorites(creds) ==
  /\ variant = "express" /\ Budget
  /\ \E cred \in creds, fail \in Fails :
       LET a == Gate(cred, fail, FALSE)
       IN  /\ (fail => cred.kind = "ok")
           /\ users' = a.users
           /\ faults' = IF fail THEN faults + 1 ELSE faults
           /\ last' = IF a.status # 0
                      THEN Ev(0, "favorites", cred, a, NoSuchId, NoBody, a.status, FALSE, <<>>)
                      ELSE Ev(0, "favorites", cred, a, NoSuchId, NoBody, 200, TRUE,
                              userFavorites(favorites, a.user))
  /\ started' = started + 1
  /\ UNCHANGED <<variant, services, servicesFile, blobs, messages, favorites,
                 reqs, now, nextId>>

\* decodeURIComponent: the escape %2F is a slash, %25 a percent sign
RECURSIVE decodeURIComponent(_)
decodeURIComponent(s) ==
  IF s = <<>> THEN <<>>
  ELSE <<CASE Head(s) = "%2F" -> "/" [] Head(s) = "%25" -> "%" [] OTHER -> Head(s)>>
       \o decodeURIComponent(Tail(s))

\* app.delete('/delete-favorite/:id', checkAuth, ...)
DeleteFavorite(creds, ids) ==
  /\ variant = "express" /\ Budget
  /\ \E cred \in creds, fail \in Fails, id \in ids, outcome \in Outcomes({"save"}) :
       LET a == Gate(cred, fail, FALSE)
           url == decodeURIComponent(id)
           index == IndexOfFavorite(favorites, url, a.user)
           run == a.status = 0 /\ index # -1
       IN  /\ (fail => cred.kind = "ok" /\ outcome = "ok")
           /\ (outcome # "ok" => run)
           /\ users' = a.users
           /\ faults' = IF fail \/ outcome # "ok" THEN faults + 1 ELSE faults
           /\ favorites' = IF run /\ outcome = "ok" THEN RemoveAt(favorites, index)
                           ELSE favorites
           /\ last' = Ev(0, "delete-favorite", cred, a, NoSuchId, FavoriteBody(JStr(id), Undef),
                         IF a.status # 0 THEN a.status
                         ELSE IF index = -1 THEN 404
                         ELSE IF outcome = "ok" THEN 200 ELSE 500,
                         a.status = 0, <<>>)
  /\ started' = started + 1
  /\ UNCHANGED <<variant, services, servicesFile, blobs, messages, reqs, now, nextId>>

\* ------------------------------------------------------- worker: catalog
\* checkAuth, then requireAdmin where the route names it
Gate_w(cred, fail, admin) ==
  LET a == checkAuth_w(cred, fail)
  IN  [a EXCEPT !.status = IF a.status = 0 /\ admin THEN requireAdmin_w(a.groups) ELSE a.status]

\* parseMultipartFormData without the filter of the empty pieces
parseMultipartFormData_noFilter(body) ==
  [body EXCEPT !.groups =
     IF @.t = "str"
     THEN JArr([i \in 1..Len(Split(@.v, ",")) |-> Trim(Split(@.v, ",")[i])])
     ELSE @]

\* parseMultipartFormData: a groups string becomes the array of its trimmed,
\* non-empty, comma-separated pieces
parseMultipartFormData(body) ==
  [body EXCEPT !.groups = IF @.t = "str" THEN JArr(SplitGroups(@.v)) ELSE @]

\* Route: GET /whoami
Whoami_w(creds) ==
  /\ variant = "worker" /\ Budget
  /\ \E cred \in creds, fail \in Fails :
       LET a == Gate_w(cred, fail, FALSE)
       IN  /\ (fail => cred.kind = "ok")
           /\ users' = a.users
           /\ faults' = IF fail THEN faults + 1 ELSE faults
           /\ last' = IF a.status # 0
                      THEN Ev(0, "whoami", cred, a, NoSuchId, NoBody, a.status, FALSE, <<>>)
                      ELSE Ev(0, "whoami", cred, a, NoSuchId, NoBody, 200, TRUE,
                              <<Includes(a.groups, ADMIN)>>)
  /\ started' = started + 1
  /\ UNCHANGED <<variant, services, servicesFile, blobs, messages, favorites,
                 reqs, now, nextId>>

\* Route: GET /services, checkAuth
GetServices_w(r, creds) ==
  /\ variant = "worker" /\ Budget /\ Free(r)
  /\ \E cred \in creds, fail \in Fails :
       LET a == Gate_w(cred, fail, FALSE)
       IN  /\ (fail => cred.kind = "ok")
           /\ users' = a.users
           /\ faults' = IF fail THEN faults + 1 ELSE faults
           /\ IF a.status # 0
              THEN /\ last' = Ev(r, "services", cred, a, NoSuchId, NoBody, a.status, FALSE, <<>>)
                   /\ reqs' = reqs
              ELSE /\ last' = Ev(r, "services", cred, a, NoSuchId, NoBody, 0, FALSE, <<>>)
                   /\ reqs' = [reqs EXCEPT ![r] = Req("findMany", "services", a.groups, NoSuchId, NoBody)]
  /\ started' = started + 1
  /\ UNCHANGED <<variant, services, servicesFile, blobs, messages, favorites, now, nextId>>

\* GET /services: prisma.service.findMany and the filter
GetServices_w_findMany(r) ==
  /\ variant = "worker" /\ reqs[r].pc = "findMany"
  /\ \E outcome \in Outcomes({"db"}) :
       /\ faults' = IF outcome = "ok" THEN faults ELSE faults + 1
       /\ last' = IF outcome = "ok"
                  THEN EvStep(r, reqs[r], 200, filteredServices(services, reqs[r].groups))
                  ELSE EvStep(r, reqs[r], 500, <<>>)
  /\ reqs' = [reqs EXCEPT ![r] = IdleReq]
  /\ UNCHANGED <<variant, users, services, servicesFile, blobs, messages, favorites,
                 now, nextId, started>>

\* !name || !redirectUrl || !file || allowedGroups.length === 0
missingFields_w(fields) ==
  \/ ~Truthy(fields.name) \/ ~Truthy(fields.redirectUrl)
  \/ fields.file = NoFile \/ Len(allowedGroups(fields.groups)) = 0

\* Route: POST /add-service, up to the validation of the fields
AddService_w(r, creds, bodies) ==
  /\ variant = "worker" /\ Budget /\ Free(r)
  /\ \E cred \in creds, fail \in Fails, body \in bodies :
       LET a == Gate_w(cred, fail, TRUE)
           fields == parseMultipartFormData(body)
       IN  /\ (fail => cred.kind = "ok")
           /\ users' = a.users
           /\ faults' = IF fail THEN faults + 1 ELSE faults
           /\ IF a.status # 0
              THEN /\ last' = Ev(r, "add-service", cred, a, NoSuchId, body, a.status, FALSE, <<>>)
                   /\ reqs' = reqs
              ELSE IF missingFields_w(fields)
              THEN /\ last' = Ev(r, "add-service", cred, a, NoSuchId, body, 400, TRUE, <<>>)
                   /\ reqs' = reqs
              ELSE /\ last' = Ev(r, "add-service", cred, a, NoSuchId, body, 0, TRUE, <<>>)
                   /\ reqs' = [reqs EXCEPT ![r] = Req("put", "add-service", a.groups, NoSuchId, body)]
  /\ started' = started + 1
  /\ UNCHANGED <<variant, services, servicesFile, blobs, messages, favorites, now, nextId>>

\* processImage: the bytes as they came, a key from the clock and the name,
\* no dimensions
processImage(file, imageName) ==
  [buffer |-> file.bytes, fileName |-> FileName(now, imageName),
   originalWidth |-> NullDim, originalHeight |-> NullDim,
   resizedHeight |-> resizedHeight, resizedWidth |-> NullDim]

\* add-service: processImage and env.IMAGES_R2.put
AddService_w_put(r) ==
  /\ variant = "worker" /\ reqs[r].pc = "put" /\ reqs[r].route = "add-service"
  /\ \E outcome \in Outcomes({"r2"}) :
       LET q == reqs[r]
           processedImage == processImage(q.body.file, Sanitize(q.body.name.v))
       IN  /\ faults' = IF outcome = "ok" THEN faults ELSE faults + 1
           /\ IF outcome = "ok"
              THEN /\ blobs' = put(blobs, processedImage.fileName, processedImage.buffer)
                   /\ reqs' = [reqs EXCEPT ![r] = [q EXCEPT !.pc = "create",
                                                            !.key = processedImage.fileName]]
                   /\ last' = EvStep(r, q, 0, <<>>)
              ELSE /\ blobs' = blobs
                   /\ reqs' = [reqs EXCEPT ![r] = IdleReq]
                   /\ last' = EvStep(r, q, 500, <<>>)
  /\ UNCHANGED <<variant, users, services, servicesFile, messages, favorites,
                 now, nextId, started>>

\* add-service: prisma.service.create
AddService_w_create(r) ==
  /\ variant = "worker" /\ reqs[r].pc = "create"
  /\ \E outcome \in Outcomes({"db"}) :
       LET q == reqs[r]
           fields == parseMultipartFormData(q.body)
           newService ==
             [id |-> nextId, name |-> fields.name.v, redirectUrl |-> fields.redirectUrl,
              allowedGroups |-> allowedGroups(fields.groups), imagePath |-> q.key,
              originalWidth |-> NullDim, originalHeight |-> NullDim,
              resizedHeight |-> resizedHeight, resizedWidth |-> NullDim]
       IN  /\ faults' = IF outcome = "ok" THEN faults ELSE faults + 1
           /\ services' = IF outcome = "ok" THEN Append(services, newService) ELSE services
           /\ nextId' = IF outcome = "ok" THEN nextId + 1 ELSE nextId
           /\ last' = IF outcome = "ok" THEN EvStep(r, q, 201, <<newService.id>>)
                      ELSE EvStep(r, q, 500, <<>>)
  /\ reqs' = [reqs EXCEPT ![r] = IdleReq]
  /\ UNCHANGED <<variant, users, servicesFile, blobs, messages, favorites, now, started>>

\* Route: PUT /update-service/:id, checkAuth and requireAdmin
UpdateService_w(r, creds, bodies) ==
  /\ variant = "worker" /\ Budget /\ Free(r)
  /\ \E cred \in creds, fail \in Fails, body \in bodies, id \in Ids :
       LET a == Gate_w(cred, fail, TRUE)
       IN  /\ (fail => cred.kind = "ok")
           /\ users' = a.users
           /\ faults' = IF fail THEN faults + 1 ELSE faults
           /\ IF a.status # 0
              THEN /\ last' = Ev(r, "update-service", cred, a, id, body, a.status, FALSE, <<>>)
                   /\ reqs' = reqs
              ELSE /\ last' = Ev(r, "update-service", cred, a, id, body, 0, FALSE, <<>>)
                   /\ reqs' = [reqs EXCEPT ![r] = Req("find", "update-service", a.groups, id, body)]
  /\ started' = started + 1
  /\ UNCHANGED <<variant, services, servicesFile, blobs, messages, favorites, now, nextId>>

\* update-service: prisma.service.findUnique
UpdateService_w_find(r) ==
  /\ variant = "worker" /\ reqs[r].pc = "find" /\ reqs[r].route = "update-service"
  /\ \E outcome \in Outcomes({"db"}) :
       LET q == reqs[r]
           index == IndexOf(services, q.id)
       IN  /\ faults' = IF outcome = "ok" THEN faults ELSE faults + 1
           /\ IF outcome # "ok"
              THEN /\ last' = EvStep(r, q, 500, <<>>)
                   /\ reqs' = [reqs EXCEPT ![r] = IdleReq]
              ELSE IF index = -1
              THEN /\ last' = EvStep(r, q, 404, <<>>)
                   /\ reqs' = [reqs EXCEPT ![r] = IdleReq]
              ELSE /\ last' = EvStep(r, q, 0, <<>>)
                   /\ reqs' = [reqs EXCEPT ![r] =
                        [q EXCEPT !.existing = services[index],
                                  !.pc = IF q.body.file # NoFile THEN "r2delete" ELSE "update"]]
  /\ UNCHANGED <<variant, users, services, servicesFile, blobs, messages, favorites,
                 now, nextId, started>>

\* update-service: processImage, then env.IMAGES_R2.delete of the old image,
\* whose failure is caught and logged
UpdateService_w_delete(r) ==
  /\ variant = "worker" /\ reqs[r].pc = "r2delete" /\ reqs[r].route = "update-service"
  /\ \E outcome \in Outcomes({"r2"}) :
       LET q == reqs[r]
           imageName == IF Truthy(q.body.name) THEN q.body.name.v ELSE q.existing.name
           processedImage == processImage(q.body.file, Sanitize(imageName))
       IN  /\ faults' = IF outcome = "ok" THEN faults ELSE faults + 1
           /\ blobs' = IF outcome = "ok" THEN unlink(blobs, q.existing.imagePath) ELSE blobs
           /\ reqs' = [reqs EXCEPT ![r] = [q EXCEPT !.pc = "put", !.key = processedImage.fileName]]
           /\ last' = EvStep(r, q, 0, <<>>)
  /\ UNCHANGED <<variant, users, services, servicesFile, messages, favorites,
                 now, nextId, started>>

\* update-service: env.IMAGES_R2.put of the new image
UpdateService_w_put(r) ==
  /\ variant = "worker" /\ reqs[r].pc = "put" /\ reqs[r].route = "update-service"
  /\ \E outcome \in Outcomes({"r2"}) :
       LET q == reqs[r]
       IN  /\ faults' = IF outcome = "ok" THEN faults ELSE faults + 1
           /\ IF outcome = "ok"
              THEN /\ blobs' = put(blobs, q.key, q.body.file.bytes)
                   /\ reqs' = [reqs EXCEPT ![r] = [q EXCEPT !.pc = "update"]]
                   /\ last' = EvStep(r, q, 0, <<>>)
              ELSE /\ blobs' = blobs
                   /\ reqs' = [reqs EXCEPT ![r] = IdleReq]
                   /\ last' = EvStep(r, q, 500, <<>>)
  /\ UNCHANGED <<variant, users, services, servicesFile, messages, favorites,
                 now, nextId, started>>

\* prisma.service.update({ where: { id }, data: updateData }): the row with
\* the fields updateData carries, the others as they are
updateData(row, body, key) ==
  LET fields == parseMultipartFormData(body)
      set == SetFields(row, fields)
  IN  IF fields.file # NoFile
      THEN [set EXCEPT !.imagePath = key, !.originalWidth = NullDim,
                       !.originalHeight = NullDim, !.resizedHeight = resizedHeight,
                       !.resizedWidth = NullDim]
      ELSE set

\* prisma.service.update writing back the row findUnique read, with the changes
UpdateService_w_update_stale(r) ==
  /\ variant = "worker" /\ reqs[r].pc = "update"
  /\ \E outcome \in Outcomes({"db"}) :
       LET q == reqs[r]
           index == IndexOf(services, q.id)
       IN  /\ faults' = IF outcome = "ok" THEN faults ELSE faults + 1
           /\ IF outcome # "ok" \/ index = -1
              THEN /\ last' = EvStep(r, q, 500, <<>>)
                   /\ services' = services
              ELSE /\ services' = [services EXCEPT ![index] = updateData(q.existing, q.body, q.key)]
                   /\ last' = EvStep(r, q, 200, <<services'[index]>>)
  /\ reqs' = [reqs EXCEPT ![r] = IdleReq]
  /\ UNCHANGED <<variant, users, servicesFile, blobs, messages, favorites,
                 now, nextId, started>>

\* update-service: prisma.service.update
UpdateService_w_update(r) ==
  /\ variant = "worker" /\ reqs[r].pc = "update"
  /\ \E outcome \in Outcomes({"db"}) :
       LET q == reqs[r]
           index == IndexOf(services, q.id)
       IN  /\ faults' = IF outcome = "ok" THEN faults ELSE faults + 1
           /\ IF outcome # "ok" \/ index = -1
              THEN /\ last' = EvStep(r, q, 500, <<>>)
                   /\ services' = services
              ELSE /\ services' = [services EXCEPT ![index] = updateData(@, q.body, q.key)]
                   /\ last' = EvStep(r, q, 200, <<services'[index]>>)
  /\ reqs' = [reqs EXCEPT ![r] = IdleReq]
  /\ UNCHANGED <<variant, users, servicesFile, blobs, messages, favorites,
                 now, nextId, started>>

\* Route: DELETE /delete-service/:id, checkAuth and requireAdmin
DeleteService_w(r, creds) ==
  /\ variant = "worker" /\ Budget /\ Free(r)
  /\ \E cred \in creds, fail \in Fails, id \in Ids :
       LET a == Gate_w(cred, fail, TRUE)
       IN  /\ (fail => cred.kind = "ok")
           /\ users' = a.users
           /\ faults' = IF fail THEN faults + 1 ELSE faults
           /\ IF a.status # 0
              THEN /\ last' = Ev(r, "delete-service", cred, a, id, NoBody, a.status, FALSE, <<>>)
                   /\ reqs' = reqs
              ELSE /\ last' = Ev(r, "delete-service", cred, a, id, NoBody, 0, FALSE, <<>>)
                   /\ reqs' = [reqs EXCEPT ![r] = Req("find", "delete-service", a.groups, id, NoBody)]
  /\ started' = started + 1
  /\ UNCHANGED <<variant, services, servicesFile, blobs, messages, favorites, now, nextId>>

\* delete-service: prisma.service.findUnique
DeleteService_w_find(r) ==
  /\ variant = "worker" /\ reqs[r].pc = "find" /\ reqs[r].route = "delete-service"
  /\ \E outcome \in Outcomes({"db"}) :
       LET q == reqs[r]
           index == IndexOf(services, q.id)
       IN  /\ faults' = IF outcome = "ok" THEN faults ELSE faults + 1
           /\ IF outcome # "ok"
              THEN /\ last' = EvStep(r, q, 500, <<>>)
                   /\ reqs' = [reqs EXCEPT ![r] = IdleReq]
              ELSE IF index = -1
              THEN /\ last' = EvStep(r, q, 404, <<>>)
                   /\ reqs' = [reqs EXCEPT ![r] = IdleReq]
              ELSE /\ last' = EvStep(r, q, 0, <<>>)
                   /\ reqs' = [reqs EXCEPT ![r] =
                        [q EXCEPT !.existing = services[index], !.pc = "r2delete"]]
  /\ UNCHANGED <<variant, users, services, servicesFile, blobs, messages, favorites,
                 now, nextId, started>>

\* delete-service: env.IMAGES_R2.delete, whose failure is caught and logged
DeleteService_w_r2delete(r) ==
  /\ variant = "worker" /\ reqs[r].pc = "r2delete" /\ reqs[r].route = "delete-service"
  /\ \E outcome \in Outcomes({"r2"}) :
       LET q == reqs[r]
       IN  /\ faults' = IF outcome = "ok" THEN faults ELSE faults + 1
           /\ blobs' = IF outcome = "ok" THEN unlink(blobs, q.existing.imagePath) ELSE blobs
           /\ reqs' = [reqs EXCEPT ![r] = [q EXCEPT !.pc = "delete"]]
           /\ last' = EvStep(r, q, 0, <<>>)
  /\ UNCHANGED <<variant, users, services, servicesFile, messages, favorites,
                 now, nextId, started>>

\* delete-service: prisma.service.delete
DeleteService_w_delete(r) ==
  /\ variant = "worker" /\ reqs[r].pc = "delete"
  /\ \E outcome \in Outcomes({"db"}) :
       LET q == reqs[r]
           index == IndexOf(services, q.id)
       IN  /\ faults' = IF outcome = "ok" THEN faults ELSE faults + 1
           /\ IF outcome # "ok" \/ index = -1
              THEN /\ last' = EvStep(r, q, 500, <<>>)
                   /\ services' = services
              ELSE /\ services' = RemoveAt(services, index)
                   /\ last' = EvStep(r, q, 200, <<>>)
  /\ reqs' = [reqs EXCEPT ![r] = IdleReq]
  /\ UNCHANGED <<variant, users, servicesFile, blobs, messages, favorites,
                 now, nextId, started>>

\* the administrators among the callers
Admins == {c \in Credentials : c.kind = "ok" /\ c.sub = "u1" /\ c.name = "Ann"
                               /\ c.groups \in {JArr(<<ADMIN>>), JStr(<<"admin">>)}}

Next ==
  \/ Tick
  \/ Whoami(Admins)
  \/ GetServices(Admins)
  \/ \E r \in Slots : AddService(r, Admins, AddBodies)
  \/ \E r \in Slots : AddService_write(r)
  \/ \E r \in Slots : UpdateService(r, Admins, UpdateBodies)
  \/ \E r \in Slots : UpdateService_fields(r)
  \/ \E r \in Slots : UpdateService_image(r)
  \/ DeleteService(Admins)
  \/ Whoami_w(Admins)
  \/ \E r \in Slots : GetServices_w(r, Admins)
  \/ \E r \in Slots : GetServices_w_findMany(r)
  \/ \E r \in Slots : AddService_w(r, Admins, AddBodies)
  \/ \E r \in Slots : AddService_w_put(r)
  \/ \E r \in Slots : AddService_w_create(r)
  \/ \E r \in Slots : UpdateService_w(r, Admins, UpdateBodies)
  \/ \E r \in Slots : UpdateService_w_find(r)
  \/ \E r \in Slots : UpdateService_w_delete(r)
  \/ \E r \in Slots : UpdateService_w_put(r)
  \/ \E r \in Slots : UpdateService_w_update(r)
  \/ \E r \in Slots : DeleteService_w(r, Admins)
  \/ \E r \in Slots : DeleteService_w_find(r)
  \/ \E r \in Slots : DeleteService_w_r2delete(r)
  \/ \E r \in Slots : DeleteService_w_delete(r)

Spec == Init /\ [][Next]_vars

\* the catalog routes without delete-service
NextUpdates ==
  \/ Tick
  \/ GetServices(Admins)
  \/ \E r \in Slots : AddService(r, Admins, AddBodies)
  \/ \E r \in Slots : AddService_write(r)
  \/ \E r \in Slots : UpdateService(r, Admins, UpdateBodies)
  \/ \E r \in Slots : UpdateService_fields(r)
  \/ \E r \in Slots : UpdateService_image(r)
  \/ \E r \in Slots : GetServices_w(r, Admins)
  \/ \E r \in Slots : GetServices_w_findMany(r)
  \/ \E r \in Slots : AddService_w(r, Admins, AddBodies)
  \/ \E r \in Slots : AddService_w_put(r)
  \/ \E r \in Slots : AddService_w_create(r)
  \/ \E r \in Slots : UpdateService_w(r, Admins, UpdateBodies)
  \/ \E r \in Slots : UpdateService_w_find(r)
  \/ \E r \in Slots : UpdateService_w_delete(r)
  \/ \E r \in Slots : UpdateService_w_put(r)
  \/ \E r \in Slots : UpdateService_w_update(r)

SpecUpdates == Init /\ [][NextUpdates]_vars

\* every route, called by every kind of caller
AddBody == {Body(JStr(NameB), UrlC, GroupsTwo, Png2)}
UpdateBody == {Body(JStr(NameB), Undef, Undef, Png2)}
AddMessageBody == {MessageBody(JStr(Text("u2")), JStr(<<"warning">>), JStr(<<"t">>),
                               JStr(<<"c">>), Undef)}
UpdateMessageBody == {MessageBody(Undef, Undef, JStr(<<"t2">>), Undef, JBool(TRUE))}
FavoriteBodyB == {FavoriteBody(JStr(UrlB), JStr(<<"B">>))}

NextAccess ==
  \/ Whoami(Credentials)
  \/ GetServices(Credentials)
  \/ \E r \in Slots : AddService(r, Credentials, AddBody)
  \/ \E r \in Slots : AddService_write(r)
  \/ \E r \in Slots : UpdateService(r, Credentials, UpdateBody)
  \/ \E r \in Slots : UpdateService_fields(r)
  \/ \E r \in Slots : UpdateService_image(r)
  \/ DeleteService(Credentials)
  \/ AddMessage(Credentials, AddMessageBody)
  \/ GetMessages(Credentials, FALSE)
  \/ GetMessages(Credentials, TRUE)
  \/ UpdateMessage(Credentials, UpdateMessageBody)
  \/ DeleteMessage(Credentials)
  \/ GetUserIds(Credentials)
  \/ AddFavorite(Credentials, FavoriteBodyB)
  \/ GetFavorites(Credentials)
  \/ DeleteFavorite(Credentials, {UrlA})
  \/ Whoami_w(Credentials)
  \/ \E r \in Slots : GetServices_w(r, Credentials)
  \/ \E r \in Slots : GetServices_w_findMany(r)
  \/ \E r \in Slots : AddService_w(r, Credentials, AddBody)
  \/ \E r \in Slots : AddService_w_put(r)
  \/ \E r \in Slots : AddService_w_create(r)
  \/ \E r \in Slots : UpdateService_w(r, Credentials, UpdateBody)
  \/ \E r \in Slots : UpdateService_w_find(r)
  \/ \E r \in Slots : UpdateService_w_delete(r)
  \/ \E r \in Slots : UpdateService_w_put(r)
  \/ \E r \in Slots : UpdateService_w_update(r)
  \/ \E r \in Slots : DeleteService_w(r, Credentials)
  \/ \E r \in Slots : DeleteService_w_find(r)
  \/ \E r \in Slots : DeleteService_w_r2delete(r)
  \/ \E r \in Slots : DeleteService_w_delete(r)

SpecAccess == Init /\ [][NextAccess]_vars


\* authenticated callers: two principals, each as administrator and as staff
Callers ==
  {c \in Credentials : c.kind = "ok" /\ c.groups \in AdminClaims /\ c.name \in {"Ann", Null}}

FavoriteIds == {UrlA, UrlB}

\* the bookmark routes of the Express server
NextBookmarks ==
  \/ Tick
  \/ AddFavorite(Callers, FavoriteBodies)
  \/ GetFavorites(Callers)
  \/ DeleteFavorite(Callers, FavoriteIds)

SpecBookmarks == Init /\ [][NextBookmarks]_vars

\* the notice routes of the Express server
NextNotices ==
  \/ Tick
  \/ AddMessage(Callers, AddMessageBodies)
  \/ GetMessages(Callers, FALSE)
  \/ GetMessages(Callers, TRUE)
  \/ UpdateMessage(Callers, UpdateMessageBodies)
  \/ DeleteMessage(Callers)
  \/ GetUserIds(Callers)

SpecNotices == Init /\ [][NextNotices]_vars

\* the update routes of both variants: the catalog routes without
\* delete-service, and update-message
NextMerge ==
  \/ NextUpdates
  \/ UpdateMessage(Admins, UpdateMessageBodies)

SpecMerge == Init /\ [][NextMerge]_vars

\* GET /services of the Worker up to the call of the provider: without
\* cookies checkAuth answers 401 at once, with cookies it awaits
\* fetch('.../api/verify'), which carries no signal and no timeout
Request_w(r) ==
  /\ variant = "worker" /\ Budget /\ Free(r)
  /\ \E cookies \in BOOLEAN :
       LET a == AuthResult(IF cookies THEN 0 ELSE 401, Null, Undef, users)
       IN  /\ last' = Ev(r, "services", NoCred, a, NoSuchId, NoBody, a.status, FALSE, <<>>)
           /\ reqs' = IF cookies
                      THEN [reqs EXCEPT ![r] = Req("verify", "services", Undef, NoSuchId, NoBody)]
                      ELSE reqs
  /\ started' = started + 1
  /\ UNCHANGED <<variant, users, services, servicesFile, blobs, messages, favorites,
                 now, nextId, faults>>

\* the provider answers the call: the rest of checkAuth, then the handler
\* goes on to prisma.service.findMany
Verify_w(r, creds) ==
  /\ variant = "worker" /\ reqs[r].pc = "verify"
  /\ \E cred \in creds, fail \in Fails :
       LET a == Gate_w(cred, fail, FALSE)
           e == Ev(r, "services", cred, a, NoSuchId, NoBody, a.status, FALSE, <<>>)
       IN  /\ cred.kind # "none"
           /\ (fail => cred.kind = "ok")
           /\ users' = a.users
           /\ faults' = IF fail THEN faults + 1 ELSE faults
           /\ last' = [e EXCEPT !.n = reqs[r].n, !.first = FALSE]
           /\ reqs' = IF a.status # 0 THEN [reqs EXCEPT ![r] = IdleReq]
                      ELSE [reqs EXCEPT ![r] = [@ EXCEPT !.pc = "findMany", !.groups = a.groups]]
  /\ UNCHANGED <<variant, services, servicesFile, blobs, messages, favorites,
                 now, nextId, started>>

\* GET /services with the call of the provider as a step of its own
NextProvider ==
  \/ Tick
  \/ GetServices(Credentials)
  \/ \E r \in Slots : Request_w(r)
  \/ \E r \in Slots : Verify_w(r, Credentials)
  \/ \E r \in Slots : GetServices_w_findMany(r)

\* the runtime resumes a handler whose database call has returned; nothing
\* makes the provider answer
SpecProvider ==
  /\ Init /\ [][NextProvider]_vars
  /\ \A r \in Slots : WF_vars(GetServices_w_findMany(r))

NameC == <<"mail">>

\* a catalog of three entries at the start, the third created in the
\* current millisecond
InitThree ==
  /\ variant \in {"express", "worker"}
  /\ users = [k \in {} |-> Null]
  /\ LET img == [bytes |-> "png1", w |-> 200, h |-> 100]
         s0 == Seed(0, NameA, JStr(<<"https://a">>), <<STAFF>>, img)
         s1 == Seed(1, NameB, JStr(<<"https://b">>), <<ADMIN>>, img)
         s2 == Seed(2, NameC, JStr(<<"https://c">>), <<STAFF>>, img)
     IN  /\ services = <<s0, s1, s2>>
         /\ servicesFile = IF variant = "express" THEN <<s0, s1, s2>> ELSE <<>>
         /\ blobs = [k \in {s0.imagePath, s1.imagePath, s2.imagePath} |-> "png1"]
  /\ messages = <<>>
  /\ favorites = <<>>
  /\ reqs = [r \in Slots |-> IdleReq]
  /\ last = NoEvent
  /\ now = 2
  /\ nextId = 3
  /\ started = 0
  /\ faults = 0

\* the catalog routes of both variants on a catalog of three entries
SpecThree == InitThree /\ [][Next]_vars

\* ----------------------------------------------------------------- claims
\* the group names of a resolved group list
Elems(g) == IF g.t = "arr" THEN {g.v[i] : i \in DOMAIN g.v} ELSE {}

\* the whole group names a resolved groups value stands for: the elements of
\* a list, the one name a string spells
Names(g) == IF g.t = "str" THEN {g.v} ELSE Elems(g)

AdminRoutes ==
  {"add-service", "update-service", "delete-service", "add-message",
   "delete-message", "update-message", "all-messages", "user-ids"}

MutationRoutes ==
  {"add-service", "update-service", "delete-service", "add-message",
   "delete-message", "update-message"}

\* the request of the event holds a suspended handler
Suspended(e) == e.slot \in Slots /\ reqs[e.slot].pc # "idle"

\* the gate has answered an authenticated caller on an administrator route
GateAnswered(e) == e.first /\ e.route \in AdminRoutes /\ e.user # Null

\* the verdict of the administrator gate that membership of "admin" calls for
AdminVerdict(e, admin) ==
  IF admin THEN e.status # 403 /\ (e.ran \/ Suspended(e))
  ELSE e.status = 403 /\ ~e.ran /\ ~Suspended(e)

\* C1: on every administrator route of both variants, a caller whose resolved
\* groups hold the whole name "admin" passes the gate (the answer is not 403
\* and the handler runs or waits to run), and every other authenticated
\* caller is answered 403, no handler runs and no request is suspended.
C1_AdminGate == GateAnswered(last) => AdminVerdict(last, ADMIN \in Names(last.groups))

\* C1, for resolved groups that are a list: the gate admits exactly the
\* callers whose list has the element "admin".
C1_AdminGateLists ==
  (GateAnswered(last) /\ last.groups.t = "arr") =>
     AdminVerdict(last, ADMIN \in Elems(last.groups))

\* the Express gate admits a caller whose groups claim is the string
\* "administrators"
C1_Divergence ==
  /\ variant = "express" /\ last.first /\ last.route = "add-message"
  /\ last.groups = JStr(ADMINISTRATORS) /\ last.status = 201

\* C2: a request without a valid credential (none, one the provider rejects,
\* or no principal header) is answered 401 by its first step, no handler
\* body runs, no request is suspended, and the Identity Cache, the catalog,
\* the files, the notices and the bookmarks are unchanged.
C2_Unauthenticated ==
  [][(last'.first /\ last'.cred.kind # "ok") =>
       /\ last'.status = 401 /\ ~last'.ran
       /\ UNCHANGED <<users, stores, reqs>>]_vars

C2_Witness ==
  /\ last.first /\ last.cred.kind = "noprincipal" /\ last.route = "delete-service"
  /\ last.status = 401 /\ Len(services) = 2

\* the entries of the catalog that share a whole group name with the groups g
Shared(names) ==
  {i \in DOMAIN services : names \cap Elems(JArr(services[i].allowedGroups)) # {}}

\* the answer holds exactly the entries at the positions in shown
Answers(result, shown) ==
  /\ Len(result) = Cardinality(shown)
  /\ \A i \in DOMAIN services :
       (i \in shown) <=> (\E j \in DOMAIN result : result[j] = services[i])

OnlyOwnProfile(k) ==
  /\ \A x \in DOMAIN users : x # k => (x \in DOMAIN users' /\ users'[x] = users[x])
  /\ \A x \in DOMAIN users' : x # k => x \in DOMAIN users

\* C4: no step of a request on a mutation route made by an authenticated
\* caller whose groups lack the whole name "admin" changes the catalog, its
\* file, the stored images or the notices; of the Identity Cache only the
\* caller's own entry may change.
C4_NonAdminReadOnly ==
  [][(/\ last'.route \in MutationRoutes
      /\ last'.groups.t # "undef" /\ ADMIN \notin Names(last'.groups)) =>
       /\ UNCHANGED <<services, servicesFile, blobs, messages>>
       /\ OnlyOwnProfile(last'.user)]_vars

\* C4, for callers whose resolved groups are a list
C4_NonAdminReadOnlyLists ==
  [][(/\ last'.route \in MutationRoutes
      /\ last'.groups.t = "arr" /\ ADMIN \notin Elems(last'.groups)) =>
       /\ UNCHANGED <<services, servicesFile, blobs, messages>>
       /\ OnlyOwnProfile(last'.user)]_vars

\* a caller whose groups claim is the string "administrators" has deleted
\* the seeded notice
C4_Divergence ==
  /\ variant = "express" /\ last.route = "delete-message" /\ last.status = 200
  /\ last.groups = JStr(ADMINISTRATORS) /\ messages = <<>>

\* the whole group names the provider reports with a groups claim
ClaimNames(g) ==
  CASE g = Undef -> {}
    [] g = JArr(<<ADMIN>>) -> {ADMIN}
    [] g = JStr(<<"admin">>) -> {ADMIN}
    [] g = JArr(<<STAFF, GUEST>>) -> {STAFF, GUEST}
    [] g = JStr(<<"staff", ",", " ", "guest">>) -> {STAFF, GUEST}
    [] g = JStr(ADMINISTRATORS) -> {ADMINISTRATORS}

\* the claim arrives as a list of names: a native list, or the delimited
\* header of the Worker
Listed(g) == variant = "worker" \/ g.t # "str"

C6_ProfileUpserted ==
  (last.first /\ last.user # Null) =>
     /\ last.user \in DOMAIN users
     /\ users[last.user].email = last.cred.email
     /\ users[last.user].displayName = last.cred.name
     /\ Names(users[last.user].groups) = ClaimNames(last.cred.groups)

\* a read-only request has overwritten the caller's profile with other groups
C6_Witness ==
  /\ last.first /\ last.route = "whoami" /\ last.status = 200
  /\ last.prior.t # "undef" /\ Names(last.prior) # Names(last.groups)
  /\ Names(users[last.user].groups) = Names(last.groups)

\* C7: every entry of the catalog, in memory and in the file, has at least
\* one allowed group, whatever add-service, update-service and delete-service
\* requests have run.
C7_GroupsNeverEmpty ==
  /\ \A i \in DOMAIN services : Len(services[i].allowedGroups) > 0
  /\ \A i \in DOMAIN servicesFile : Len(servicesFile[i].allowedGroups) > 0

\* an update carrying an empty groups list has completed
C7_Witness ==
  /\ last.route = "update-service" /\ last.status = 200
  /\ last.body.groups = GroupsNone /\ Len(last.result[1].allowedGroups) = 1

\* the groups field of a form holds no name: it is absent, an empty list, an
\* empty string, or (the Worker splits the string) separators and blanks only
Blank(g) ==
  \/ g.t = "undef"
  \/ g.t = "arr" /\ g.v = <<>>
  \/ g.t = "str" /\ g.v = <<>>
  \/ variant = "worker" /\ g.t = "str" /\ \A i \in DOMAIN g.v : g.v[i] \in {",", " "}

\* the first step of add-service has answered an authenticated administrator
AddAnswered(e) ==
  e.first /\ e.route = "add-service" /\ e.user # Null /\ e.status # 403

\* C8: add-service with the groups field absent or holding no name is
\* answered 400, and the catalog, its file and the stored images are
\* unchanged and no handler is left to write anything.
C8_AddRejected ==
  [][(AddAnswered(last') /\ Blank(last'.body.groups)) =>
       /\ last'.status = 400
       /\ UNCHANGED <<services, servicesFile, blobs, reqs>>]_vars

\* C8, but for the empty string the Express server takes as one group name
C8_AddRejectedLists ==
  [][(/\ AddAnswered(last') /\ Blank(last'.body.groups)
      /\ ~(variant = "express" /\ last'.body.groups = JStr(<<>>))) =>
       /\ last'.status = 400
       /\ UNCHANGED <<services, servicesFile, blobs, reqs>>]_vars

\* the Express server has stored an entry whose one group is the empty name
C8_Divergence ==
  /\ variant = "express" /\ last.route = "add-service" /\ last.status = 201
  /\ last.body.groups = JStr(<<>>)
  /\ \E i \in DOMAIN services : services[i].allowedGroups = << <<>> >>

\* C9: no step of an update-service request whose groups field is absent or
\* holds no name changes the allowedGroups of any entry.
C9_GroupsKept ==
  [][(last'.route = "update-service" /\ Blank(last'.body.groups)) =>
       /\ Len(services') = Len(services)
       /\ \A i \in DOMAIN services :
            services'[i].allowedGroups = services[i].allowedGroups]_vars

\* an update with a name and an empty groups list has renamed the first
\* seeded entry and left its groups
C9_Witness ==
  /\ last.route = "update-service" /\ last.status = 200 /\ last.id = 0
  /\ last.body.groups = GroupsNone /\ Truthy(last.body.name)
  /\ last.result[1].name = NameB /\ last.result[1].allowedGroups = <<STAFF>>

\* the fields of an entry an update-service body sets
FieldsSet(b) ==
  (IF Truthy(b.name) THEN {"name"} ELSE {})
  \cup (IF Truthy(b.redirectUrl) THEN {"redirectUrl"} ELSE {})
  \cup (IF ~Blank(b.groups) THEN {"groups"} ELSE {})
  \cup (IF b.file # NoFile THEN {"image"} ELSE {})

\* the entry s has the values the completed update e asked for; the image
\* it stored is the one its answer names
Carries(s, e) ==
  /\ "name" \in FieldsSet(e.body) => s.name = e.body.name.v
  /\ "redirectUrl" \in FieldsSet(e.body) => s.redirectUrl = e.body.redirectUrl
  /\ "groups" \in FieldsSet(e.body) =>
        Elems(JArr(s.allowedGroups)) = Names(e.body.groups)
  /\ "image" \in FieldsSet(e.body) =>
        /\ s.imagePath = e.result[1].imagePath
        /\ s.originalWidth = e.result[1].originalWidth
        /\ s.originalHeight = e.result[1].originalHeight

\* one update-service has completed right after another on the same id, so
\* the two overlapped, and they set disjoint fields
TwoUpdatesDone(e1, e2) ==
  /\ e1.route = "update-service" /\ e1.status = 200
  /\ e2.route = "update-service" /\ e2.status = 200
  /\ e1.n # e2.n /\ e1.id = e2.id
  /\ FieldsSet(e1.body) # {} /\ FieldsSet(e2.body) # {}
  /\ FieldsSet(e1.body) \cap FieldsSet(e2.body) = {}

\* C10: when two overlapping update-service requests on the same id that
\* set disjoint fields have both completed, the stored entry carries the
\* values of both.
C10_NoLostUpdate ==
  [][TwoUpdatesDone(last, last') =>
       LET s == services'[IndexOf(services', last'.id)]
       IN  Carries(s, last) /\ Carries(s, last')]_vars

\* the first request started has completed last, after a second one on the
\* same entry started and completed: the entry has the address of the first
\* and the name of the second
C10_Witness ==
  /\ last.route = "update-service" /\ last.status = 200 /\ last.id = 0
  /\ last.n = 1 /\ started = 2 /\ \A r \in Slots : reqs[r].pc = "idle"
  /\ FieldsSet(last.body) = {"redirectUrl"}
  /\ last.result[1].redirectUrl = UrlC /\ last.result[1].name = NameB
  /\ services[IndexOf(services, 0)] = last.result[1]

\* no two records of the list have the same url and the same owner
UniquePairs(list) ==
  \A i, j \in DOMAIN list :
     (list[i].url = list[j].url /\ list[i].userId = list[j].userId) => i = j

\* the records of the list that the identity u does not own, in order
OthersOf(list, u) == SelectSeq(list, LAMBDA f : f.userId # u)

\* the caller of the event already owns a bookmark of the url in its body
OwnsPair(e) ==
  /\ e.user # Null /\ e.body.url.t = "str"
  /\ \E i \in DOMAIN favorites :
        favorites[i].url = e.body.url.v /\ favorites[i].userId = e.user

\* C11: after every step the bookmark store holds at most one record per
\* (url, owner) pair, and an add-favorite of a pair the caller already owns
\* is answered 400 and leaves the store as it was.
C11_UniqueBookmarks ==
  [][/\ UniquePairs(favorites')
     /\ (last'.route = "add-favorite" /\ OwnsPair(last')) =>
          (last'.status = 400 /\ favorites' = favorites)]_vars

\* a caller who owns the bookmark has asked to add it again, with a title
C11_Witness ==
  /\ last.route = "add-favorite" /\ last.status = 400
  /\ Truthy(last.body.url) /\ Truthy(last.body.title)
  /\ \E i \in DOMAIN favorites :
        favorites[i].url = last.body.url.v /\ favorites[i].userId = last.user

BookmarkRoutes == {"add-favorite", "favorites", "delete-favorite"}

\* C12: GET /favorites answers with records the caller owns only, and no
\* step of a bookmark request returns, removes or changes a record owned by
\* another identity, whether the caller is an administrator or not and
\* whether the url is the same or not.
C12_BookmarksPrivate ==
  [][(last'.route \in BookmarkRoutes /\ last'.user # Null) =>
       /\ OthersOf(favorites', last'.user) = OthersOf(favorites, last'.user)
       /\ \A j \in DOMAIN last'.result :
            last'.route = "favorites" => last'.result[j].userId = last'.user]_vars

\* an administrator has asked to delete the url another identity bookmarked:
\* nothing is found and the record is still there
C12_Witness ==
  /\ last.route = "delete-favorite" /\ last.status = 404
  /\ ADMIN \in Names(last.groups)
  /\ \E i \in DOMAIN favorites :
        /\ favorites[i].url = last.body.url.v
        /\ favorites[i].userId # last.user

\* C13: GET /messages answers the caller with key u with stored notices
\* whose recipient is u and whose dismissed flag is false, and with nothing
\* else, whatever add-message, update-message and delete-message did before.
C13_OwnLiveNotices ==
  (last.route = "messages" /\ last.status = 200) =>
    \A j \in DOMAIN last.result :
       /\ last.result[j].userId = Text(last.user)
       /\ last.result[j].dismissed = FALSE
       /\ \E i \in DOMAIN messages : messages[i] = last.result[j]

\* the caller is answered while a dismissed notice of theirs and a notice
\* of another recipient are stored
C13_Witness ==
  /\ last.route = "messages" /\ last.status = 200
  /\ \E i \in DOMAIN messages :
        messages[i].userId = Text(last.user) /\ messages[i].dismissed
  /\ \E i \in DOMAIN messages : messages[i].userId # Text(last.user)

\* the recipients of an add-message body, as a list
Recipients(b) == IF b.userId.t = "arr" THEN b.userId.v ELSE <<b.userId.v>>

C15_TypeInEnum ==
  \A i \in DOMAIN messages : messages[i].type \in validTypes

\* C15, add-message alone: every notice a request appends has a type of the
\* enumeration, and a request with another type is answered 400.
C15_AddValidated ==
  [][last'.route = "add-message" =>
       /\ \A j \in DOMAIN last'.result : last'.result[j].type \in validTypes
       /\ (last'.ran /\ Truthy(last'.body.type) /\ last'.body.type.v \notin validTypes)
            => (last'.status = 400 /\ messages' = messages)]_vars

\* update-message has stored the type it was sent, outside the enumeration
C15_Divergence ==
  /\ last.route = "update-message" /\ last.status = 200
  /\ last.body.type.t = "str" /\ last.body.type.v \notin validTypes
  /\ \E i \in DOMAIN messages :
        messages[i].id = last.id /\ messages[i].type = last.body.type.v

\* the step of a delete-service request that looks its id up in the catalog
DeleteLooksUp ==
  /\ last'.route = "delete-service"
  /\ \/ variant = "express" /\ last'.first /\ last'.ran
     \/ variant = "worker" /\ ~last'.first /\ reqs[last'.slot].pc = "find"

\* C16: a delete-service whose id matches no stored entry is answered 404
\* (500 if the lookup itself fails), and the step leaves the catalog, its
\* file and the blob store as they were.
C16_DeleteUnknown ==
  [][(DeleteLooksUp /\ IndexOf(services, last'.id) = -1) =>
       /\ last'.status = (IF faults' = faults THEN 404 ELSE 500)
       /\ services' = services
       /\ servicesFile' = servicesFile
       /\ blobs' = blobs]_vars

\* an unknown id has been answered 404 while entries and blobs are stored
C16_Witness ==
  /\ last.route = "delete-service" /\ last.status = 404
  /\ IndexOf(services, last.id) = -1
  /\ Len(services) > 0 /\ DOMAIN blobs # {}

\* C17: all stored catalog entries have pairwise distinct ids.
C17_UniqueIds ==
  \A i, j \in DOMAIN services : services[i].id = services[j].id => i = j

\* C17, Worker alone: the ids the database assigns are pairwise distinct.
C17_UniqueIdsWorker ==
  variant = "worker" => C17_UniqueIds

\* the Express server has stored a second entry under the id of an entry
\* created in the same millisecond
C17_Divergence ==
  /\ variant = "express"
  /\ last.route = "add-service" /\ last.status = 201
  /\ \E i, j \in DOMAIN services :
        /\ i < j /\ services[i].id = services[j].id
        /\ j = Len(services)

\* the step that completes an update-service carrying an image, answered 200
Replaced ==
  /\ last'.route = "update-service" /\ last'.status = 200
  /\ last'.body.file # NoFile

\* the image reference of the entry before the replace, and the one after
OldKey ==
  IF variant = "express" THEN services[reqs[last'.slot].index].imagePath
  ELSE reqs[last'.slot].existing.imagePath
NewKey == last'.result[1].imagePath

\* C18: when update-service has replaced an entry's image, the entry's
\* image reference is a key different from the one it had, the old key is
\* no longer in the blob store and the new key is.
C18_NewKeyOldGone ==
  [][Replaced =>
       /\ NewKey # OldKey
       /\ OldKey \notin DOMAIN blobs'
       /\ NewKey \in DOMAIN blobs']_vars

\* C18, replaces that make a key different from the old one, with no
\* failure of a store: the new key is retrievable and the old one is not.
C18_OtherInstant ==
  [][(Replaced /\ NewKey # OldKey /\ faults' = 0) =>
       /\ OldKey \notin DOMAIN blobs'
       /\ NewKey \in DOMAIN blobs']_vars

\* the Express server has replaced an image written in this millisecond,
\* the name of the entry unchanged: the entry refers to the key it had, and
\* the file written under it has been unlinked as the old one
C18_Divergence ==
  /\ variant = "express"
  /\ last.route = "update-service" /\ last.status = 200
  /\ last.body.file # NoFile /\ ~Truthy(last.body.name)
  /\ last.result[1].imagePath.t = now
  /\ last.result[1].imagePath \notin DOMAIN blobs

\* the last step has written an entry from an ingested image
WroteImage ==
  /\ last.body.file # NoFile
  /\ \/ last.route = "add-service" /\ last.status = 201
     \/ last.route = "update-service" /\ last.status = 200

\* the entry that step wrote: add-service appends it, update-service answers with it
Written == IF last.route = "add-service" THEN services[Len(services)] ELSE last.result[1]

\* the integer nearest to w / h * 50, halves upwards
Nearest(w, h) ==
  CHOOSE k \in 0..(50 * w + 1) : 2 * k * h - h <= 100 * w /\ 100 * w < 2 * k * h + h

\* C19: an entry written by add-service, or by update-service with a new
\* image, has resizedHeight 50 and resizedWidth round(w / h * 50) for the
\* width w and height h of the ingested image; 200 by 100 gives 100.
C19_DisplaySize ==
  WroteImage =>
    /\ Written.resizedHeight = 50
    /\ Written.resizedWidth = Nearest(last.body.file.w, last.body.file.h)
    /\ (last.body.file.w = 200 /\ last.body.file.h = 100) => Written.resizedWidth = 100

\* C19, Express server alone: the entry records the size computed from the
\* dimensions sharp reads.
C19_DisplaySizeExpress ==
  variant = "express" => C19_DisplaySize

\* the Worker has stored an entry whose dimensions and display width are null
C19_Divergence ==
  /\ variant = "worker" /\ WroteImage
  /\ Written.resizedHeight = 50
  /\ Written.resizedWidth = NullDim /\ Written.originalWidth = NullDim

\* the step of an update-service that deletes the old image: in the Express
\* server the step that writes the new file and unlinks the old one, in the
\* Worker the delete of the old object
DeletesOld ==
  /\ last'.route = "update-service" /\ ~last'.first
  /\ reqs[last'.slot].route = "update-service"
  /\ reqs[last'.slot].pc = (IF variant = "express" THEN "sharp" ELSE "r2delete")
  /\ variant = "express" => reqs[last'.slot].index \in DOMAIN services
  /\ OldKey \in DOMAIN blobs /\ OldKey \notin DOMAIN blobs'

\* the key that request writes its new image under
KeyToWrite ==
  IF variant = "express"
  THEN FileName(now, services[reqs[last'.slot].index].name)
  ELSE reqs'[last'.slot].key

\* C20: no step of an update-service with a new image takes the old blob
\* out of the blob store unless the new blob is stored when the step ends.
C20_WriteBeforeDelete ==
  [][DeletesOld => KeyToWrite \in DOMAIN blobs']_vars

\* C20, Express server alone, the new key different from the old one (see
\* C18): the old file is unlinked only after the new file is written.
C20_WriteBeforeDeleteExpress ==
  [][(variant = "express" /\ DeletesOld /\ KeyToWrite # OldKey) =>
       KeyToWrite \in DOMAIN blobs']_vars

\* the Worker has deleted the old object and has not put the new one yet:
\* the entry refers to an image that is not retrievable
C20_Divergence ==
  /\ variant = "worker"
  /\ \E r \in Slots :
        /\ reqs[r].route = "update-service" /\ reqs[r].pc = "put"
        /\ reqs[r].key \notin DOMAIN blobs
        /\ reqs[r].existing.imagePath \notin DOMAIN blobs
        /\ \E i \in DOMAIN services :
              /\ services[i].id = reqs[r].id
              /\ services[i].imagePath = reqs[r].existing.imagePath

\* the catalog as persisted: the JSON file of the Express server, the
\* table of the Worker
Persisted == IF variant = "express" THEN servicesFile ELSE services

\* the keys the persisted entries of a catalog refer to
Referenced(list) == {list[i].imagePath : i \in DOMAIN list}

\* C21: no step of a delete-service takes a blob out of the blob store
\* while a persisted record still refers to it.
C21_RecordBeforeBlob ==
  [][last'.route = "delete-service" =>
       \A k \in DOMAIN blobs :
          k \notin DOMAIN blobs' => k \notin Referenced(Persisted')]_vars

\* the image of a record is gone and the removal of the record has failed:
\* the delete-service is answered 500 and the record is still persisted
C21_Divergence ==
  /\ last.route = "delete-service" /\ last.status = 500
  /\ \E i \in DOMAIN Persisted :
        /\ Persisted[i].id = last.id
        /\ Persisted[i].imagePath \notin DOMAIN blobs

CleanupFails ==
  /\ faults' > faults
  /\ \/ /\ variant = "worker" /\ ~last'.first /\ last'.slot \in Slots
        /\ reqs[last'.slot].pc = "r2delete"
     \/ /\ variant = "express" /\ last'.route = "delete-service" /\ last'.ran
        /\ IndexOf(services, last'.id) # -1
        /\ services[IndexOf(services, last'.id)].imagePath \in DOMAIN blobs'
     \/ /\ variant = "express" /\ last'.route = "update-service" /\ ~last'.first
        /\ reqs[last'.slot].pc = "sharp"
        /\ blobs' # blobs
        /\ services[reqs[last'.slot].index].imagePath \in DOMAIN blobs'

\* C23: a failing delete of the image does not fail the request: the step
\* in which it fails is not answered with an error.
C23_CleanupSwallowed ==
  [][CleanupFails => last'.status \in {0, 200}]_vars

\* C23, Worker alone: the failure is caught and the request goes on to its
\* next store call.
C23_CleanupSwallowedWorker ==
  [][(variant = "worker" /\ CleanupFails) =>
       /\ last'.status = 0
       /\ reqs'[last'.slot].pc \in {"put", "delete"}]_vars

\* the Express server has answered a delete-service 500 because the unlink
\* of the image failed: the entry has left the live catalog, the file of
\* the catalog still holds it and its image is still stored
C23_Divergence ==
  /\ variant = "express"
  /\ last.route = "delete-service" /\ last.status = 500
  /\ \A i \in DOMAIN services : services[i].id # last.id
  /\ \E i \in DOMAIN servicesFile :
        /\ servicesFile[i].id = last.id
        /\ servicesFile[i].imagePath \in DOMAIN blobs

\* the step that ends an add-service with an error after its first step
AddFails ==
  /\ last'.route = "add-service" /\ ~last'.first /\ last'.status = 500
  /\ last'.slot \in Slots

\* the key that add-service writes its image under
AddedKey ==
  IF variant = "express" THEN FileName(now, last'.body.name.v)
  ELSE reqs[last'.slot].key

\* C24: when an add-service ends with an error, the image it stored is not
\* left in the blob store unless a persisted entry refers to it.
C24_NoOrphan ==
  [][(AddFails /\ AddedKey \in DOMAIN blobs') =>
       AddedKey \in Referenced(Persisted')]_vars

\* the Worker has answered an add-service 500 and the image of its body is
\* stored under a key no entry refers to
C24_Divergence ==
  /\ variant = "worker"
  /\ last.route = "add-service" /\ last.status = 500
  /\ \E k \in DOMAIN blobs :
        /\ k \notin Referenced(Persisted)
        /\ k.n = Sanitize(last.body.name.v)
        /\ blobs[k] = last.body.file.bytes

\* an update-service is suspended between two of its steps
UpdatePending == \E r \in Slots : reqs[r].route = "update-service" /\ reqs[r].pc # "idle"

\* C25: a GET /services answered while an update-service is suspended
\* returns records as they are persisted, none with a part of the update
\* that is not completed.
C25_NoPartialUpdate ==
  (last.route = "services" /\ last.status = 200 /\ UpdatePending) =>
    \A j \in DOMAIN last.result :
       \E i \in DOMAIN Persisted : Persisted[i] = last.result[j]

\* C25, Worker alone: the catalog changes in one step of an update-service
\* only, the prisma.service.update that completes it.
C25_SingleWriteWorker ==
  [][(variant = "worker" /\ last'.route = "update-service" /\ services' # services) =>
       last'.status = 200]_vars

\* the Express server has listed an entry with the name of an update that is
\* waiting for its image to be processed; the persisted entry has the old name
C25_Divergence ==
  /\ variant = "express"
  /\ last.route = "services" /\ last.status = 200
  /\ \E r \in Slots :
        /\ reqs[r].route = "update-service" /\ reqs[r].pc = "sharp"
        /\ \E j \in DOMAIN last.result :
              /\ last.result[j].id = reqs[r].id
              /\ last.result[j].name = reqs[r].body.name.v
              /\ \A i \in DOMAIN servicesFile :
                    servicesFile[i].id = reqs[r].id =>
                      servicesFile[i].name # last.result[j].name

\* C26: no step of an update-service stores an image in the blob store
\* when the catalog holds no entry with the id of the request, as happens in
\* neither serial order of an update and a delete of the same id.
C26_NoImageForDeleted ==
  [][(last'.route = "update-service" /\ ~last'.first /\ last'.body.file # NoFile
        /\ \E k \in DOMAIN blobs' : k \notin DOMAIN blobs \/ blobs'[k] # blobs[k]) =>
       \E i \in DOMAIN services' : services'[i].id = last'.id]_vars

\* the Worker has answered 500 an update-service whose entry a delete-service
\* removed in between: the new image is stored and no entry refers to it
C26_Divergence ==
  /\ variant = "worker"
  /\ last.route = "update-service" /\ last.status = 500
  /\ \A i \in DOMAIN services : services[i].id # last.id
  /\ \E k \in DOMAIN blobs :
        /\ k \notin Referenced(services)
        /\ blobs[k] = last.body.file.bytes

\* what a step of update-service may do to the entry old, giving new
MergedEntry(old, new, b) ==
  /\ new.id = old.id
  /\ new.name # old.name => (Truthy(b.name) /\ new.name = b.name.v)
  /\ new.redirectUrl # old.redirectUrl =>
       (Truthy(b.redirectUrl) /\ new.redirectUrl = b.redirectUrl)
  /\ new.allowedGroups # old.allowedGroups => (Truthy(b.groups) /\ new.allowedGroups # <<>>)
  /\ b.file = NoFile =>
       /\ new.imagePath = old.imagePath
       /\ new.originalWidth = old.originalWidth
       /\ new.originalHeight = old.originalHeight
       /\ new.resizedHeight = old.resizedHeight
       /\ new.resizedWidth = old.resizedWidth

\* what update-message may do to the notice old, giving new
MergedNotice(old, new, b) ==
  /\ new.id = old.id /\ new.userId = old.userId /\ new.createdAt = old.createdAt
  /\ new.type # old.type => (Truthy(b.type) /\ new.type = b.type.v)
  /\ new.title # old.title => (Truthy(b.title) /\ new.title = b.title.v)
  /\ new.content # old.content => (Truthy(b.content) /\ new.content = b.content.v)
  /\ new.dismissed # old.dismissed =>
       (b.dismissed.t = "bool" /\ new.dismissed = b.dismissed.v)

\* C27: a step of update-service or update-message overwrites, in the
\* record the request names, only fields the request carries, with the
\* values it carries; every other field keeps its value, and a request
\* without fields leaves the record as it was.
C27_PartialMerge ==
  [][/\ last'.route = "update-service" =>
          \A i \in DOMAIN services :
             (services[i].id = last'.id /\ i \in DOMAIN services') =>
               MergedEntry(services[i], services'[i], last'.body)
     /\ last'.route = "update-message" =>
          \A i \in DOMAIN messages :
             (messages[i].id = last'.id /\ i \in DOMAIN messages') =>
               MergedNotice(messages[i], messages'[i], last'.body)]_vars

\* an update-message carrying a title only has been answered 200: the
\* notice has the new title and is not dismissed
C27_Witness ==
  /\ last.route = "update-message" /\ last.status = 200
  /\ Truthy(last.body.title) /\ ~Truthy(last.body.type)
  /\ last.body.dismissed.t # "bool"
  /\ \E i \in DOMAIN messages :
        /\ messages[i].id = last.id
        /\ messages[i].title = last.body.title.v
        /\ messages[i].dismissed = FALSE

\* C28: the groups the gate resolves for an authenticated caller are a list
\* of whole group names, and on an administrator route the gate admits
\* exactly the callers whose list has the element "admin".
C28_WholeNames ==
  (last.first /\ last.user # Null) =>
    /\ last.groups.t = "arr"
    /\ last.route \in AdminRoutes => AdminVerdict(last, ADMIN \in Elems(last.groups))

\* C28, Worker alone: the header is split at the commas, so the groups are
\* a list and "administrators" is one whole name.
C28_WholeNamesWorker ==
  variant = "worker" => C28_WholeNames

\* the Express server has resolved the groups of a caller to the string
\* "administrators" and has let the caller through the administrator gate
C28_Divergence ==
  /\ variant = "express" /\ last.first /\ last.route = "user-ids"
  /\ last.groups = JStr(ADMINISTRATORS)
  /\ ADMIN \notin Names(last.groups)
  /\ last.status = 200 /\ last.ran

\* C29: every request that waits is eventually answered, whether or not
\* the provider answers the verification call.
C29_EventuallyAnswered ==
  \A r \in Slots : (reqs[r].pc # "idle") ~> (reqs[r].pc = "idle")

\* C29, after the provider has answered: a request that waits for the
\* database is eventually answered.
C29_AnsweredAfterVerify ==
  \A r \in Slots : (reqs[r].pc = "findMany") ~> (reqs[r].pc = "idle")

\* a request of the Worker waits for the provider, and no step of the
\* Worker itself is left for it to take
C29_Divergence ==
  /\ variant = "worker"
  /\ \E r \in Slots :
        /\ reqs[r].pc = "verify" /\ reqs[r].route = "services"
        /\ ~ENABLED GetServices_w_findMany(r)

\* the provider accepted the credential and named a principal, and the gate
\* did not resolve an identity: the write of the Identity Cache failed
CacheFailed(e) == e.first /\ e.route # "none" /\ e.cred.kind = "ok" /\ e.user = Null

\* C30: a request whose credential the provider accepts, with a principal,
\* and whose Identity Cache write fails is answered 500; 401 is answered
\* only to a credential that is absent, rejected or without a principal.
C30_StatusTaxonomy ==
  /\ CacheFailed(last) => last.status = 500
  /\ (last.first /\ last.status = 401) => last.cred.kind # "ok"

\* C30, Express server alone: a failing saveUsers is answered 500.
C30_StatusTaxonomyExpress ==
  variant = "express" => C30_StatusTaxonomy

\* the Worker has answered 401 to a credential the provider accepted,
\* because prisma.user.upsert threw
C30_Divergence ==
  /\ variant = "worker" /\ CacheFailed(last)
  /\ last.status = 401 /\ faults > 0

\* the entries of the catalog that do not have the id of the event
Others(e) == {services[i] : i \in {j \in DOMAIN services : services[j].id # e.id}}

\* C31: a step of update-service changes no entry with an id other than the
\* id of the request: each is in the catalog afterwards with the same
\* fields and the same image reference, and its image file is as it was.
C31_OnlyNamedEntry ==
  [][(last'.route = "update-service" /\ ~last'.first) =>
       \A s \in Others(last') :
          /\ \E j \in DOMAIN services' : services'[j] = s
          /\ s.imagePath \in DOMAIN blobs =>
               (s.imagePath \in DOMAIN blobs' /\ blobs'[s.imagePath] = blobs[s.imagePath])]_vars

\* C31, Worker alone: prisma.service.update addresses the row by its id,
\* and every other row keeps its fields and its image reference.
C31_OnlyNamedEntryWorker ==
  [][(variant = "worker" /\ last'.route = "update-service" /\ ~last'.first) =>
       \A s \in Others(last') : \E j \in DOMAIN services' : services'[j] = s]_vars

\* the Express server has answered 200 an update-service with the entry
\* that follows the named one in the list: a delete-service of an earlier
\* entry moved both down while the update awaited the image processing, and
\* the named entry is still in the catalog
C31_Divergence ==
  /\ variant = "express"
  /\ last.route = "update-service" /\ last.status = 200
  /\ last.body.file # NoFile
  /\ last.result[1].id # last.id
  /\ \E i \in DOMAIN services : services[i].id = last.id

\* no request is suspended between two of its steps
Quiet == \A r \in Slots : reqs[r].pc = "idle"

\* C32: when every request has ended, the image reference of every
\* persisted catalog entry names an object that is in the blob store.
C32_NoDanglingReference ==
  Quiet => \A i \in DOMAIN Persisted : Persisted[i].imagePath \in DOMAIN blobs

\* the Worker has answered 500 an update-service whose put of the new image
\* failed after the old object was deleted: the row still names the old key
C32_Divergence ==
  /\ variant = "worker" /\ Quiet
  /\ last.route = "update-service" /\ last.status = 500
  /\ last.body.file # NoFile
  /\ \E i \in DOMAIN services :
        /\ services[i].id = last.id
        /\ services[i].imagePath \notin DOMAIN blobs

\* C33: in the Express server, when no request is in progress the
\* in-memory catalog equals the content of services.json.
C33_MemoryEqualsFile ==
  (variant = "express" /\ Quiet) => services = servicesFile

\* C33, when no call has failed: every handler that changes the array saves
\* it before it answers.
C33_MemoryEqualsFileNoFailure ==
  (variant = "express" /\ Quiet /\ faults = 0) => services = servicesFile

\* an update-service of the Express server with a name and an image has
\* ended with 500 before the image was replaced: the array keeps the new
\* name, which services.json does not have
C33_Divergence ==
  /\ variant = "express" /\ Quiet
  /\ last.route = "update-service" /\ last.status = 500
  /\ Truthy(last.body.name) /\ last.body.file # NoFile
  /\ Len(services) = Len(servicesFile)
  /\ \E i \in DOMAIN services :
        /\ services[i].id = last.id /\ servicesFile[i].id = last.id
        /\ services[i].name = last.body.name.v
        /\ servicesFile[i].name # last.body.name.v
        /\ services[i].imagePath = servicesFile[i].imagePath

\* C34: no two stored catalog entries have the same image reference.
C34_DistinctImageKeys ==
  \A i, j \in DOMAIN services :
     services[i].imagePath = services[j].imagePath => i = j

\* the Worker has created, in one millisecond, two entries of the same name
\* under two ids: both refer to the same object
C34_Divergence ==
  /\ variant = "worker"
  /\ last.route = "add-service" /\ last.status = 201
  /\ \E i, j \in DOMAIN services :
        /\ i < j /\ j = Len(services)
        /\ services[i].id # services[j].id
        /\ services[i].name = services[j].name
        /\ services[i].imagePath = services[j].imagePath
        /\ services[j].imagePath \in DOMAIN blobs

====
